---- MODULE Spec2Model ----
(***************************************************************************)
(* Alert decision engine of go-xpx-check-fork-util (src/alertmanager.go,   *)
(* lines 1-364): the AlertManager with its three entry points              *)
(* handleOfflineAlert, handleSyncAlert and handleHashAlert, and the        *)
(* sender sendToTelegram that stamps the last-alert times.                 *)
(*                                                                         *)
(* Time is counted in minutes, the unit of the AlertConfig intervals       *)
(* (src/config.go:86-96).  An entry point runs at one reading of the       *)
(* clock, and the clock reads later at every next call.                    *)
(***************************************************************************)
EXTENDS Integers, FiniteSets, Sequences, TLC

(* ------------------------------ bounds -------------------------------- *)
\* the clock runs over 0..MaxTime
MaxTime == 3
\* the three durations of AlertConfig range over 0..MaxInterval
MaxInterval == 2
\* the three integer thresholds of AlertConfig range over 0..MaxThreshold
MaxThreshold == 1
\* checkpoints and observed heights range over 0..MaxHeight
MaxHeight == 1

(* ------------------------------ values -------------------------------- *)
OfflineAlertType == 0
SyncAlertType == 1
HashAlertType == 2
AlertTypes == {OfflineAlertType, SyncAlertType, HashAlertType}

\* am.nodeInfos: the nodes of the configuration, by identity key, in order
nodeInfos == <<"n1", "n2">>
ConfiguredNodes == {nodeInfos[i] : i \in 1..Len(nodeInfos)}
\* a node found by peer discovery, absent from the configuration
DiscoveredNodes == {"p1"}
AllNodes == ConfiguredNodes \cup DiscoveredNodes

\* the block hashes two sides of a fork report
Hashes == {"hA", "hB"}

\* time.Time{}: the zero time, before every reading of the clock
ZeroTime == -1
Times == 0..MaxTime

\* time.Duration saturates: time.Since of the zero time is the largest
\* duration, above every interval of the configuration
maxDuration == MaxTime + MaxInterval + 1

VARIABLES
    config,            \* am.config: the AlertConfig
    notifier,          \* am.notifier: [enabled]
    now,               \* the clock, time.Now()
    lastAlertTimes,    \* am.lastAlertTimes: AlertType -> time (zero if absent)
    lastStuckHeight,   \* am.lastStuckHeight
    lastStuckTime,     \* am.lastStuckTime
    offlineNodeStats,  \* am.offlineNodeStats: identity key -> NodeStatus
    call,              \* the call that ran last and what it handed on
    fc                 \* the ForkChecker, and where main is in LoadConfig,
                       \* NewForkChecker and Start

vars == <<config, notifier, now, lastAlertTimes, lastStuckHeight, lastStuckTime,
          offlineNodeStats, call, fc>>

amState == <<lastAlertTimes, lastStuckHeight, lastStuckTime, offlineNodeStats>>

(* --------------------------- configuration ---------------------------- *)
AlertConfig ==
    [OfflineAlertRepeatInterval : 0..MaxInterval,
     OfflineConsecutiveBlocksThreshold : 0..MaxThreshold,
     SyncAlertRepeatInterval : 0..MaxInterval,
     StuckDurationThreshold : 0..MaxInterval,
     OutOfSyncBlocksThreshold : 0..MaxThreshold,
     OutOfSyncCriticalNodesThreshold : 0..MaxThreshold]

\* a configuration file that sets the offline fields only (the others are 0)
OfflineConfigs ==
    {c \in AlertConfig :
        /\ c.SyncAlertRepeatInterval = 0
        /\ c.StuckDurationThreshold = 0
        /\ c.OutOfSyncBlocksThreshold = 0
        /\ c.OutOfSyncCriticalNodesThreshold = 0}

\* a configuration file that gives its three durations one value and its
\* three thresholds one value
UniformConfigs ==
    {c \in AlertConfig :
        /\ c.SyncAlertRepeatInterval = c.OfflineAlertRepeatInterval
        /\ c.StuckDurationThreshold = c.OfflineAlertRepeatInterval
        /\ c.OutOfSyncBlocksThreshold = c.OfflineConsecutiveBlocksThreshold
        /\ c.OutOfSyncCriticalNodesThreshold = c.OfflineConsecutiveBlocksThreshold}

\* a configuration file that sets the sync fields only
SyncConfigs ==
    {c \in AlertConfig :
        /\ c.OfflineAlertRepeatInterval = 0
        /\ c.OfflineConsecutiveBlocksThreshold = 0}

getOfflineAlertRepeatInterval == config.OfflineAlertRepeatInterval
getSyncAlertRepeatInterval == config.SyncAlertRepeatInterval
getStuckDurationThreshold == config.StuckDurationThreshold

(* ------------------------------- clock -------------------------------- *)
\* time.Since(t)
Since(t) == IF t = ZeroTime THEN maxDuration ELSE now - t

(* -------------------------- legacy notifier --------------------------- *)
\* n.IsEnabled()
IsEnabled == notifier.enabled

\* n.canAlert(lastAlertTime) of the earlier Notifier, alarmInterval being its
\* n.alarmInterval
canAlert(lastAlertTime, alarmInterval) ==
    IsEnabled /\ (lastAlertTime = ZeroTime \/ Since(lastAlertTime) >= alarmInterval)

(* --------------------------- the ForkChecker -------------------------- *)
\* no configuration is loaded
NoConfig == [Nodes |-> 0, ApiUrls |-> <<>>, BotAPIKey |-> "", ChatID |-> 0,
             Checkpoint |-> 0, HeightCheckInterval |-> 0]

\* main has not called LoadConfig: no configuration, no ForkChecker. Beside
\* the program's own state the record keeps what the loop has seen and what
\* the network holds in store: cycle, the statements run in the cycle under
\* way (kept by SpecMain); progress, whether a node reached the recorded
\* stuck checkpoint since the record (kept by SpecProgress); stalled, whether
\* the chain has stopped for good at checkpoint (SpecStall); down, the
\* configured nodes that have gone offline for good (SpecOutage)
BeforeMain ==
    [pc |-> "LoadConfig", content |-> NoConfig, cfg |-> NoConfig,
     err |-> "nil", catapultClient |-> "nil", checkpoint |-> 0,
     init |-> [up |-> {}, tried |-> 0, amErr |-> "nil", poolErr |-> "nil",
               chain |-> [height |-> 0, err |-> "nil"], queried |-> FALSE],
     failedConnectionsNodes |-> {}, notReached |-> <<>>, reached |-> <<>>,
     hashes |-> <<>>, cycle |-> <<>>, progress |-> FALSE,
     stalled |-> FALSE, down |-> {}]

(* ------------------------- the call record ---------------------------- *)
NoAlert == [type |-> -1]
NoArgs == [failed |-> {}, checkpoint |-> 0, notReached |-> <<>>,
           reached |-> <<>>, hashes |-> <<>>]

\* no entry point is running
Idle == [op |-> "none", args |-> NoArgs, should |-> FALSE, attempted |-> FALSE,
         transmitted |-> FALSE, delivered |-> FALSE, alert |-> NoAlert]

\* the record of a call of entry point op with arguments args: should is the
\* result of its shouldSend function, attempted says that it called
\* am.sendToTelegram, sent is what that call did
Called(op, args, should, attempted, sent) ==
    [op |-> op,
     args |-> args,
     should |-> should,
     attempted |-> attempted,
     transmitted |-> sent.transmitted,
     delivered |-> sent.delivered,
     alert |-> sent.alert]

(* ------------------------------ sender -------------------------------- *)
updateNodeStatus(stats, key, status) ==
    [k \in DOMAIN stats \cup {key} |-> IF k = key THEN status ELSE stats[k]]

\* a delete that leaves the entry in place
deleteNodeStatus_Keep(stats, key) == stats

deleteNodeStatus(stats, key) ==
    [k \in DOMAIN stats \ {key} |-> stats[k]]

\* a stamping that writes a new status, which loses the count
updateNodeStatusLastOfflineAlertTime_NewStatus(stats, alert) ==
    [k \in DOMAIN stats |->
        IF k \in alert.NotConnected
        THEN [consecutiveOfflineCount |-> 0, lastOfflineAlertTime |-> now]
        ELSE stats[k]]

\* a stamping that reaches the nodes over the threshold only
updateNodeStatusLastOfflineAlertTime_OverThreshold(stats, alert) ==
    [k \in DOMAIN stats |->
        IF /\ k \in alert.NotConnected
           /\ stats[k].consecutiveOfflineCount
                  > config.OfflineConsecutiveBlocksThreshold
        THEN [stats[k] EXCEPT !.lastOfflineAlertTime = now]
        ELSE stats[k]]

\* stamps every key of the alert's NotConnected that has an entry
updateNodeStatusLastOfflineAlertTime(stats, alert) ==
    [k \in DOMAIN stats |->
        IF k \in alert.NotConnected
        THEN [stats[k] EXCEPT !.lastOfflineAlertTime = now]
        ELSE stats[k]]

\* a sender that does not look at the notifier's enabled flag
sendToTelegram_IgnoreEnabled(alert, stats, ok) ==
    IF ~ok
    THEN [lastAlertTimes |-> lastAlertTimes, stats |-> stats, alert |-> alert,
          transmitted |-> TRUE, delivered |-> FALSE]
    ELSE [lastAlertTimes |-> [lastAlertTimes EXCEPT ![alert.type] = now],
          stats |-> IF alert.type = OfflineAlertType
                    THEN updateNodeStatusLastOfflineAlertTime(stats, alert)
                    ELSE stats,
          alert |-> alert, transmitted |-> TRUE, delivered |-> TRUE]

\* a sender that stamps the Sync kind for every alert it delivers
sendToTelegram_StampSync(alert, stats, ok) ==
    IF ~notifier.enabled
    THEN [lastAlertTimes |-> lastAlertTimes, stats |-> stats, alert |-> alert,
          transmitted |-> FALSE, delivered |-> FALSE]
    ELSE IF ~ok
    THEN [lastAlertTimes |-> lastAlertTimes, stats |-> stats, alert |-> alert,
          transmitted |-> TRUE, delivered |-> FALSE]
    ELSE [lastAlertTimes |-> [lastAlertTimes EXCEPT ![SyncAlertType] = now],
          stats |-> IF alert.type = OfflineAlertType
                    THEN updateNodeStatusLastOfflineAlertTime(stats, alert)
                    ELSE stats,
          alert |-> alert, transmitted |-> TRUE, delivered |-> TRUE]

\* a sender that stamps the nodes of an offline alert before it asks the
\* transport
sendToTelegram_StampNodesFirst(alert, stats, ok) ==
    IF ~notifier.enabled
    THEN [lastAlertTimes |-> lastAlertTimes, stats |-> stats, alert |-> alert,
          transmitted |-> FALSE, delivered |-> FALSE]
    ELSE [lastAlertTimes |-> IF ok
                             THEN [lastAlertTimes EXCEPT ![alert.type] = now]
                             ELSE lastAlertTimes,
          stats |-> IF alert.type = OfflineAlertType
                    THEN updateNodeStatusLastOfflineAlertTime(stats, alert)
                    ELSE stats,
          alert |-> alert, transmitted |-> TRUE, delivered |-> ok]

\* a sender that stamps the times whatever the transport answers
sendToTelegram_StampOnFailure(alert, stats, ok) ==
    IF ~notifier.enabled
    THEN [lastAlertTimes |-> lastAlertTimes, stats |-> stats, alert |-> alert,
          transmitted |-> FALSE, delivered |-> FALSE]
    ELSE [lastAlertTimes |-> [lastAlertTimes EXCEPT ![alert.type] = now],
          stats |-> IF alert.type = OfflineAlertType
                    THEN updateNodeStatusLastOfflineAlertTime(stats, alert)
                    ELSE stats,
          alert |-> alert, transmitted |-> TRUE, delivered |-> ok]

\* am.sendToTelegram(alert) on the node stats `stats`, the transport
\* answering ok: the last-alert times and the node stats it leaves, whether
\* the message went to the transport and whether the transport took it
sendToTelegram(alert, stats, ok) ==
    IF ~notifier.enabled
    THEN [lastAlertTimes |-> lastAlertTimes, stats |-> stats, alert |-> alert,
          transmitted |-> FALSE, delivered |-> FALSE]
    ELSE IF ~ok
    THEN [lastAlertTimes |-> lastAlertTimes, stats |-> stats, alert |-> alert,
          transmitted |-> TRUE, delivered |-> FALSE]
    ELSE [lastAlertTimes |-> [lastAlertTimes EXCEPT ![alert.type] = now],
          stats |-> IF alert.type = OfflineAlertType
                    THEN updateNodeStatusLastOfflineAlertTime(stats, alert)
                    ELSE stats,
          alert |-> alert, transmitted |-> TRUE, delivered |-> TRUE]

\* the entry point did not call am.sendToTelegram
notSent(stats) ==
    [lastAlertTimes |-> lastAlertTimes, stats |-> stats, alert |-> NoAlert,
     transmitted |-> FALSE, delivered |-> FALSE]

\* the answers the transport can give: it is asked only when the entry point
\* sends and the notifier is enabled
Answers(attempted) == IF attempted /\ notifier.enabled THEN BOOLEAN ELSE {TRUE}

(* --------------------------- offline alert ---------------------------- *)
\* a first status that starts the count at 0
firstOfflineStatus_FromZero ==
    [consecutiveOfflineCount |-> 0, lastOfflineAlertTime |-> ZeroTime]

\* the status of a node seen offline for the first time
firstOfflineStatus ==
    [consecutiveOfflineCount |-> 1, lastOfflineAlertTime |-> ZeroTime]

\* a condition without the repeat interval
offlineAlertDue_NoRepeatGate(status) ==
    status.consecutiveOfflineCount > config.OfflineConsecutiveBlocksThreshold

\* a condition that takes a threshold of zero as "alerts off"
offlineAlertDue_ZeroDisabled(status) ==
    /\ config.OfflineConsecutiveBlocksThreshold > 0
    /\ status.consecutiveOfflineCount > config.OfflineConsecutiveBlocksThreshold
    /\ Since(status.lastOfflineAlertTime) > getOfflineAlertRepeatInterval

\* a condition that takes a count equal to the threshold as over it
offlineAlertDue_AtThreshold(status) ==
    /\ status.consecutiveOfflineCount >= config.OfflineConsecutiveBlocksThreshold
    /\ Since(status.lastOfflineAlertTime) > getOfflineAlertRepeatInterval

\* a condition that lets a node be alerted for once only
offlineAlertDue_FirstAlertOnly(status) ==
    /\ status.consecutiveOfflineCount > config.OfflineConsecutiveBlocksThreshold
    /\ status.lastOfflineAlertTime = ZeroTime

\* the condition under which a node's status asks for an alert
offlineAlertDue(status) ==
    /\ status.consecutiveOfflineCount > config.OfflineConsecutiveBlocksThreshold
    /\ Since(status.lastOfflineAlertTime) > getOfflineAlertRepeatInterval

\* the loop of shouldSendOfflineAlert from node i on
RECURSIVE offlineLoop(_, _, _, _)
offlineLoop(i, stats, shouldAlert, failed) ==
    IF i > Len(nodeInfos) THEN [stats |-> stats, shouldAlert |-> shouldAlert]
    ELSE
        LET identityKey == nodeInfos[i] IN
        IF identityKey \in failed
        THEN LET status ==
                     IF identityKey \notin DOMAIN stats
                     THEN firstOfflineStatus
                     ELSE [stats[identityKey] EXCEPT
                               !.consecutiveOfflineCount = @ + 1]
             IN  offlineLoop(i + 1, updateNodeStatus(stats, identityKey, status),
                             shouldAlert \/ offlineAlertDue(status), failed)
        ELSE offlineLoop(i + 1, deleteNodeStatus(stats, identityKey),
                         shouldAlert, failed)

\* a variant that counts every failed node, configured or not
shouldSendOfflineAlert_AllFailed(failed) ==
    LET r == offlineLoop(1, offlineNodeStats, FALSE, failed)
        extra == failed \ ConfiguredNodes
        status(n) ==
            IF n \in DOMAIN offlineNodeStats
            THEN [offlineNodeStats[n] EXCEPT !.consecutiveOfflineCount = @ + 1]
            ELSE firstOfflineStatus
    IN  [stats |-> [n \in DOMAIN r.stats \cup extra |->
                       IF n \in extra THEN status(n) ELSE r.stats[n]],
         shouldAlert |-> r.shouldAlert
                             \/ \E n \in extra : offlineAlertDue(status(n))]

\* am.shouldSendOfflineAlert(failedConnectionsNodes): its result and the node
\* stats it leaves
shouldSendOfflineAlert(failed) ==
    offlineLoop(1, offlineNodeStats, FALSE, failed)

OfflineAlert(failed) == [type |-> OfflineAlertType, NotConnected |-> failed]

\* am.handleOfflineAlert(failedConnectionsNodes); failed is the key set of the
\* map, ok the answer of the transport should the message reach it
HandleOfflineAlert(failed, ok) ==
    /\ call = Idle
    /\ LET should == shouldSendOfflineAlert(failed)
           sent == IF should.shouldAlert
                   THEN sendToTelegram(OfflineAlert(failed), should.stats, ok)
                   ELSE notSent(should.stats)
       IN  /\ ok \in Answers(should.shouldAlert)
           /\ offlineNodeStats' = sent.stats
           /\ lastAlertTimes' = sent.lastAlertTimes
           /\ call' = Called("offline", [NoArgs EXCEPT !.failed = failed],
                             should.shouldAlert, should.shouldAlert, sent)
    /\ UNCHANGED <<config, notifier, now, lastStuckHeight, lastStuckTime>>

(* ----------------------------- sync alert ----------------------------- *)
\* int(checkpoint-height): the uint64 difference wraps and the conversion
\* reads it back as a signed number, which is the difference itself
blocksBehind(checkpoint, height) == checkpoint - height

\* a check that takes a duration equal to the threshold as over it
isStuckDurationReached_AtThreshold(checkpoint) ==
    IF lastStuckHeight = checkpoint
    THEN [result |-> Since(lastStuckTime) >= getStuckDurationThreshold,
          lastStuckHeight |-> lastStuckHeight,
          lastStuckTime |-> lastStuckTime]
    ELSE [result |-> FALSE,
          lastStuckHeight |-> checkpoint,
          lastStuckTime |-> now]

\* a check that starts the duration anew whenever it has not yet run out
isStuckDurationReached_Restart(checkpoint) ==
    IF lastStuckHeight = checkpoint
           /\ Since(lastStuckTime) > getStuckDurationThreshold
    THEN [result |-> TRUE,
          lastStuckHeight |-> lastStuckHeight,
          lastStuckTime |-> lastStuckTime]
    ELSE [result |-> FALSE,
          lastStuckHeight |-> checkpoint,
          lastStuckTime |-> now]

\* am.isStuckDurationReached(checkpoint): its result and the stuck tracking
\* it leaves
isStuckDurationReached(checkpoint) ==
    IF lastStuckHeight = checkpoint
    THEN [result |-> Since(lastStuckTime) > getStuckDurationThreshold,
          lastStuckHeight |-> lastStuckHeight,
          lastStuckTime |-> lastStuckTime]
    ELSE [result |-> FALSE,
          lastStuckHeight |-> checkpoint,
          lastStuckTime |-> now]

\* the loop of shouldSendSyncAlert from node i on: it returns true from
\* inside the loop, right after an increment, and false once the loop ends
RECURSIVE criticalLoop(_, _, _, _)
criticalLoop(i, criticalNodesCount, checkpoint, notReached) ==
    IF i > Len(nodeInfos) THEN FALSE
    ELSE IF /\ nodeInfos[i] \in DOMAIN notReached
            /\ blocksBehind(checkpoint, notReached[nodeInfos[i]])
                   >= config.OutOfSyncBlocksThreshold
         THEN IF criticalNodesCount + 1 >= config.OutOfSyncCriticalNodesThreshold
              THEN TRUE
              ELSE criticalLoop(i + 1, criticalNodesCount + 1, checkpoint, notReached)
         ELSE criticalLoop(i + 1, criticalNodesCount, checkpoint, notReached)

\* a check that clears the stuck record when some node reached the checkpoint
shouldSendSyncAlert_ResetOnProgress(checkpoint, notReached, reached) ==
    IF DOMAIN notReached = {}
    THEN [result |-> FALSE, lastStuckHeight |-> lastStuckHeight,
          lastStuckTime |-> lastStuckTime]
    ELSE IF DOMAIN reached = {}
    THEN isStuckDurationReached(checkpoint)
    ELSE [result |-> criticalLoop(1, 0, checkpoint, notReached),
          lastStuckHeight |-> 0,
          lastStuckTime |-> ZeroTime]

\* a check that looks at reached before it looks at notReached
shouldSendSyncAlert_ReachedFirst(checkpoint, notReached, reached) ==
    IF DOMAIN reached = {}
    THEN isStuckDurationReached(checkpoint)
    ELSE IF DOMAIN notReached = {}
    THEN [result |-> FALSE, lastStuckHeight |-> lastStuckHeight,
          lastStuckTime |-> lastStuckTime]
    ELSE [result |-> criticalLoop(1, 0, checkpoint, notReached),
          lastStuckHeight |-> lastStuckHeight,
          lastStuckTime |-> lastStuckTime]

\* am.shouldSendSyncAlert(checkpoint, notReached, reached): its result and the
\* stuck tracking it leaves
shouldSendSyncAlert(checkpoint, notReached, reached) ==
    IF DOMAIN notReached = {}
    THEN [result |-> FALSE, lastStuckHeight |-> lastStuckHeight,
          lastStuckTime |-> lastStuckTime]
    ELSE IF DOMAIN reached = {}
    THEN isStuckDurationReached(checkpoint)
    ELSE [result |-> criticalLoop(1, 0, checkpoint, notReached),
          lastStuckHeight |-> lastStuckHeight,
          lastStuckTime |-> lastStuckTime]

SyncAlert(checkpoint, notReached, reached) ==
    [type |-> SyncAlertType, Height |-> checkpoint,
     NotReached |-> notReached, Reached |-> reached]

\* a gate that lets every alert through
syncAlertDue_Ungated(should) == should

\* the repeat-interval gate of handleSyncAlert on the result of
\* shouldSendSyncAlert
syncAlertDue(should) ==
    /\ should
    /\ Since(lastAlertTimes[SyncAlertType]) > getSyncAlertRepeatInterval

\* a handler that looks at the repeat interval first and evaluates
\* shouldSendSyncAlert only when the interval is over
HandleSyncAlert_GateFirst(checkpoint, notReached, reached, ok) ==
    /\ call = Idle
    /\ LET open == Since(lastAlertTimes[SyncAlertType])
                       > getSyncAlertRepeatInterval
           should == IF open
                     THEN shouldSendSyncAlert(checkpoint, notReached, reached)
                     ELSE [result |-> FALSE,
                           lastStuckHeight |-> lastStuckHeight,
                           lastStuckTime |-> lastStuckTime]
           attempt == open /\ should.result
           sent == IF attempt
                   THEN sendToTelegram(SyncAlert(checkpoint, notReached, reached),
                                       offlineNodeStats, ok)
                   ELSE notSent(offlineNodeStats)
       IN  /\ ok \in Answers(attempt)
           /\ lastStuckHeight' = should.lastStuckHeight
           /\ lastStuckTime' = should.lastStuckTime
           /\ lastAlertTimes' = sent.lastAlertTimes
           /\ offlineNodeStats' = sent.stats
           /\ call' = Called("sync",
                             [NoArgs EXCEPT !.checkpoint = checkpoint,
                                            !.notReached = notReached,
                                            !.reached = reached],
                             should.result, attempt, sent)
    /\ UNCHANGED <<config, notifier, now>>

\* am.handleSyncAlert(checkpoint, notReached, reached)
HandleSyncAlert(checkpoint, notReached, reached, ok) ==
    /\ call = Idle
    /\ LET should == shouldSendSyncAlert(checkpoint, notReached, reached)
           attempt == syncAlertDue(should.result)
           sent == IF attempt
                   THEN sendToTelegram(SyncAlert(checkpoint, notReached, reached),
                                       offlineNodeStats, ok)
                   ELSE notSent(offlineNodeStats)
       IN  /\ ok \in Answers(attempt)
           /\ lastStuckHeight' = should.lastStuckHeight
           /\ lastStuckTime' = should.lastStuckTime
           /\ lastAlertTimes' = sent.lastAlertTimes
           /\ offlineNodeStats' = sent.stats
           /\ call' = Called("sync",
                             [NoArgs EXCEPT !.checkpoint = checkpoint,
                                            !.notReached = notReached,
                                            !.reached = reached],
                             should.result, attempt, sent)
    /\ UNCHANGED <<config, notifier, now>>

\* whether, once handleSyncAlert(checkpoint, notReached, reached) has run,
\* some call for the recorded stuck checkpoint made since the record had a
\* node in reached: a new record starts afresh, a call for the recorded
\* checkpoint that finds a node in reached is such a call
progressAfter(checkpoint, notReached, reached) ==
    IF /\ DOMAIN notReached # {} /\ DOMAIN reached = {}
       /\ checkpoint # lastStuckHeight
    THEN FALSE
    ELSE IF /\ lastStuckTime # ZeroTime
            /\ checkpoint = lastStuckHeight
            /\ DOMAIN reached # {}
    THEN TRUE
    ELSE fc.progress

(* ----------------------------- hash alert ----------------------------- *)
HashAlert(checkpoint, hashes) ==
    [type |-> HashAlertType, Height |-> checkpoint, Hashes |-> hashes]

\* a handler that holds a hash alert back within the repeat interval of the
\* sync alerts
HandleHashAlert_Gated(checkpoint, hashes, ok) ==
    /\ call = Idle
    /\ LET attempt == Since(lastAlertTimes[HashAlertType])
                          > getSyncAlertRepeatInterval
           sent == IF attempt
                   THEN sendToTelegram(HashAlert(checkpoint, hashes),
                                       offlineNodeStats, ok)
                   ELSE notSent(offlineNodeStats)
       IN  /\ ok \in Answers(attempt)
           /\ lastAlertTimes' = sent.lastAlertTimes
           /\ offlineNodeStats' = sent.stats
           /\ call' = Called("hash",
                             [NoArgs EXCEPT !.checkpoint = checkpoint,
                                            !.hashes = hashes],
                             TRUE, attempt, sent)
    /\ UNCHANGED <<config, notifier, now, lastStuckHeight, lastStuckTime>>

\* am.handleHashAlert(checkpoint, hashes)
HandleHashAlert(checkpoint, hashes, ok) ==
    /\ call = Idle
    /\ LET sent == sendToTelegram(HashAlert(checkpoint, hashes),
                                  offlineNodeStats, ok)
       IN  /\ ok \in Answers(TRUE)
           /\ lastAlertTimes' = sent.lastAlertTimes
           /\ offlineNodeStats' = sent.stats
           /\ call' = Called("hash",
                             [NoArgs EXCEPT !.checkpoint = checkpoint,
                                            !.hashes = hashes],
                             TRUE, TRUE, sent)
    /\ UNCHANGED <<config, notifier, now, lastStuckHeight, lastStuckTime>>

(* ------------------------------ strings ------------------------------- *)
\* a string is the sequence of its characters; the characters of the
\* endpoints and friendly names, in the order of their bytes
charsInOrder == <<" ", "(", ")", ".", "1", "2", ":", "A", "a", "b">>
Digits == {"1", "2"}

charRank(c) == CHOOSE i \in 1..Len(charsInOrder) : charsInOrder[i] = c

\* s < t on strings
RECURSIVE stringBefore(_, _)
stringBefore(s, t) ==
    IF t = <<>> THEN FALSE
    ELSE IF s = <<>> THEN TRUE
    ELSE IF Head(s) # Head(t) THEN charRank(Head(s)) < charRank(Head(t))
    ELSE stringBefore(Tail(s), Tail(t))

\* strings.TrimSpace(s)
RECURSIVE TrimSpace(_)
TrimSpace(s) ==
    IF s = <<>> THEN s
    ELSE IF Head(s) = " " THEN TrimSpace(Tail(s))
    ELSE IF s[Len(s)] = " " THEN TrimSpace(SubSeq(s, 1, Len(s) - 1))
    ELSE s

\* the index of the first and of the last c in s, 0 without one
firstIndex(s, c) ==
    IF \E i \in 1..Len(s) : s[i] = c
    THEN CHOOSE i \in 1..Len(s) : s[i] = c /\ \A j \in 1..(i - 1) : s[j] # c
    ELSE 0
lastIndex(s, c) ==
    IF \E i \in 1..Len(s) : s[i] = c
    THEN CHOOSE i \in 1..Len(s) : s[i] = c /\ \A j \in (i + 1)..Len(s) : s[j] # c
    ELSE 0

\* net.SplitHostPort(hostport) on an address without brackets: the last colon
\* splits it, and it is an error to have none or to have another one before
SplitHostPort(hostport) ==
    LET i == lastIndex(hostport, ":") IN
    IF i = 0
    THEN [host |-> <<>>, port |-> <<>>, err |-> TRUE]
    ELSE IF firstIndex(SubSeq(hostport, 1, i - 1), ":") # 0
    THEN [host |-> <<>>, port |-> <<>>, err |-> TRUE]
    ELSE [host |-> SubSeq(hostport, 1, i - 1),
          port |-> SubSeq(hostport, i + 1, Len(hostport)), err |-> FALSE]

\* strings.Split(s, "."), the fields of s between its dots
RECURSIVE Split(_)
Split(s) ==
    LET i == firstIndex(s, ".") IN
    IF i = 0 THEN <<s>>
    ELSE <<SubSeq(s, 1, i - 1)>> \o Split(SubSeq(s, i + 1, Len(s)))

\* the value of a string of digits
RECURSIVE decimal(_)
decimal(s) ==
    IF s = <<>> THEN 0
    ELSE 10 * decimal(SubSeq(s, 1, Len(s) - 1))
             + (IF s[Len(s)] = "1" THEN 1 ELSE 2)

\* net.ParseIP(s) # nil for a string without colon: four fields of one to
\* three digits, each at most 255
ParseIP(s) ==
    LET fields == Split(s) IN
    /\ Len(fields) = 4
    /\ \A k \in 1..4 :
           /\ Len(fields[k]) \in 1..3
           /\ \A j \in 1..Len(fields[k]) : fields[k][j] \in Digits
           /\ decimal(fields[k]) <= 255

\* abbreviateIfDNSName(address) of the message builders
abbreviateIfDNSName(address) ==
    LET split == SplitHostPort(address)
        host == IF split.err THEN address ELSE split.host
    IN  IF ParseIP(host) THEN host ELSE Split(host)[1]

\* AbbreviateIfDNSName(address) of the earlier message builders
AbbreviateIfDNSName(address) ==
    LET split == SplitHostPort(address)
        host == IF split.err THEN address ELSE split.host
        port == IF split.err THEN <<>> ELSE split.port
    IN  IF ParseIP(host)
        THEN IF port # <<>> THEN host \o <<":">> \o port ELSE host
        ELSE IF port # <<>> THEN Split(host)[1] \o <<":">> \o port
             ELSE Split(host)[1]

\* insertSpaceIfExceedsLength(input, maxLength)
insertSpaceIfExceedsLength(input, maxLength) ==
    IF Len(input) > maxLength
    THEN SubSeq(input, 1, maxLength) \o <<" ">>
             \o SubSeq(input, maxLength + 1, Len(input))
    ELSE input

\* the text a builder shows for a node: its friendly name with the
\* abbreviated endpoint in parentheses, or the abbreviated endpoint alone
nodeStr(node) ==
    LET host == abbreviateIfDNSName(node.Endpoint) IN
    IF node.FriendlyName # <<>> /\ TrimSpace(node.FriendlyName) # TrimSpace(host)
    THEN node.FriendlyName \o <<"(">> \o host \o <<")">>
    ELSE host

\* a call of abbreviateIfDNSName, and of AbbreviateIfDNSName, on the address
\* made of host and, if hasPort, a colon and port
CallAbbreviateIfDNSName(host, hasPort, port) ==
    /\ call = Idle
    /\ LET address == IF hasPort THEN host \o <<":">> \o port ELSE host IN
       call' = [op |-> "abbreviateIfDNSName",
                host |-> host, hasPort |-> hasPort, port |-> port,
                address |-> address,
                result |-> abbreviateIfDNSName(address),
                earlier |-> AbbreviateIfDNSName(address)]
    /\ UNCHANGED <<config, notifier, now, amState>>

\* a builder renders one node
CallNodeStr(node) ==
    /\ call = Idle
    /\ call' = [op |-> "nodeStr", node |-> node, result |-> nodeStr(node)]
    /\ UNCHANGED <<config, notifier, now, amState>>

(* --------------------- offline and sync messages ---------------------- *)
\* sort.Slice(nodesStr, less by the first column) and sort.Strings on rows of
\* one column, as the library sorts a slice of fewer than 12 rows: each row
\* moves left past the rows whose first column is greater
RECURSIVE insertRow(_, _)
insertRow(row, sorted) ==
    IF sorted = <<>> THEN <<row>>
    ELSE IF stringBefore(row[1], sorted[Len(sorted)][1])
    THEN insertRow(row, SubSeq(sorted, 1, Len(sorted) - 1))
             \o <<sorted[Len(sorted)]>>
    ELSE sorted \o <<row>>

RECURSIVE sortSlice(_)
sortSlice(rows) ==
    IF rows = <<>> THEN <<>>
    ELSE insertRow(rows[Len(rows)], sortSlice(SubSeq(rows, 1, Len(rows) - 1)))

\* OfflineAlert.createMessage() on the map notConnected (identity key to
\* node), its range loop visiting the keys in `order`: the title, the count
\* and the rows
createOfflineMessage(notConnected, order) ==
    <<"Warning - Offline nodes", Cardinality(DOMAIN notConnected)>>
        \o sortSlice([i \in 1..Len(order) |-> <<nodeStr(notConnected[order[i]])>>])

\* SyncAlert.writeSynced: the heading with the count, and the rows
writeSynced(height, reached, order) ==
    <<"Synced at", height, Cardinality(reached)>>
        \o sortSlice([i \in 1..Len(order) |-> <<nodeStr(order[i])>>])

nodeCount == 5
minWidth == 23
maxWidth == 28

\* the row of writeOutOfSync for a node at height h
outOfSyncRow(node, h, nodeWidth) ==
    LET host == abbreviateIfDNSName(node.Endpoint) IN
    <<IF /\ node.FriendlyName # <<>>
         /\ TrimSpace(node.FriendlyName) # TrimSpace(host)
      THEN insertSpaceIfExceedsLength(
               node.FriendlyName \o <<"(">> \o host \o <<")">>, nodeWidth)
      ELSE host,
      h>>

\* SyncAlert.writeOutOfSync: the heading with the count, and the rows
writeOutOfSync(notReached, order) ==
    LET nodeWidth == IF Cardinality(DOMAIN notReached) <= nodeCount
                     THEN minWidth ELSE maxWidth
    IN  <<"Out-of-sync", Cardinality(DOMAIN notReached)>>
            \o sortSlice([i \in 1..Len(order) |->
                             outOfSyncRow(order[i], notReached[order[i]],
                                          nodeWidth)])

\* SyncAlert.createMessage() on the alert with height, notReached (node to
\* height) and reached (the set of its nodes), the range loops visiting the
\* maps in reachedOrder and notReachedOrder
createSyncMessage(height, notReached, reached, reachedOrder, notReachedOrder) ==
    <<IF reached = {} THEN "Stuck Alert" ELSE "Warning">>
        \o writeSynced(height, reached, reachedOrder)
        \o writeOutOfSync(notReached, notReachedOrder)

\* a call of createMessage on an OfflineAlert
CreateOfflineMessage(notConnected, order) ==
    /\ call = Idle
    /\ call' = [op |-> "createOfflineMessage",
                NotConnected |-> notConnected,
                message |-> createOfflineMessage(notConnected, order)]
    /\ UNCHANGED <<config, notifier, now, amState>>

\* a call of createMessage on a SyncAlert
CreateSyncMessage(height, notReached, reached, reachedOrder, notReachedOrder) ==
    /\ call = Idle
    /\ call' = [op |-> "createSyncMessage",
                Height |-> height, NotReached |-> notReached,
                Reached |-> reached,
                message |-> createSyncMessage(height, notReached, reached,
                                              reachedOrder, notReachedOrder)]
    /\ UNCHANGED <<config, notifier, now, amState>>

(* --------------------------- hash message ----------------------------- *)
\* the endpoints in the order of their strings
endpointsInOrder == <<"n1", "n2", "p1">>

\* a < b on strings
stringLess(a, b) ==
    \E i, j \in 1..Len(endpointsInOrder) :
        /\ endpointsInOrder[i] = a /\ endpointsInOrder[j] = b /\ i < j

\* x put at its place in the sorted sequence `sorted`
RECURSIVE insertSorted(_, _)
insertSorted(x, sorted) ==
    IF sorted = <<>> THEN <<x>>
    ELSE IF stringLess(x, Head(sorted)) THEN <<x>> \o sorted
    ELSE <<Head(sorted)>> \o insertSorted(x, Tail(sorted))

\* sort.Strings(strings)
RECURSIVE sortStrings(_)
sortStrings(strings) ==
    IF strings = <<>> THEN <<>>
    ELSE insertSorted(Head(strings), sortStrings(Tail(strings)))

\* the orders in which a range loop can visit a map with key set S
iterationOrders(S) ==
    {o \in [1..Cardinality(S) -> S] : \A x \in S : \E i \in DOMAIN o : o[i] = x}

\* the first loop of createMessage: hashesGroup, each hash with the endpoints
\* appended in the order `hashesOrder` visits a.Hashes
groupHashes(hashes, hashesOrder) ==
    [h \in {hashes[e] : e \in DOMAIN hashes} |->
        SelectSeq(hashesOrder, LAMBDA e : hashes[e] = h)]

\* the second loop of createMessage from group i on: for each hash of
\* hashesGroup in the order `groupOrder` visits it, the hash and its
\* endpoints, sorted
RECURSIVE writeGroups(_, _, _)
writeGroups(i, hashesGroup, groupOrder) ==
    IF i > Len(groupOrder) THEN <<>>
    ELSE <<groupOrder[i]>> \o sortStrings(hashesGroup[groupOrder[i]])
             \o <<"">> \o writeGroups(i + 1, hashesGroup, groupOrder)

\* HashAlert.createMessage() for the alert a, the two range loops visiting
\* their maps in the orders hashesOrder and groupOrder: the text, line by line
createMessage(a, hashesOrder, groupOrder) ==
    <<"Fork Alert", a.Height>>
        \o writeGroups(1, groupHashes(a.Hashes, hashesOrder), groupOrder)

\* a call of createMessage on a HashAlert
CreateHashMessage(checkpoint, hashes, hashesOrder, groupOrder) ==
    /\ call = Idle
    /\ call' = [op |-> "createMessage",
                alert |-> HashAlert(checkpoint, hashes),
                message |-> createMessage(HashAlert(checkpoint, hashes),
                                          hashesOrder, groupOrder)]
    /\ UNCHANGED <<config, notifier, now, amState>>

(* ------------------------------ inputs -------------------------------- *)
Heights == 0..MaxHeight

\* the maps of observed heights over some of the nodes; a discovered node's
\* height is never read, so one value stands for it
HeightMaps ==
    UNION {[S -> Heights] : S \in SUBSET ConfiguredNodes} \cup
    UNION {{[n \in DOMAIN m \cup D |-> IF n \in D THEN 0 ELSE m[n]] :
                m \in UNION {[S -> Heights] : S \in SUBSET ConfiguredNodes}} :
           D \in SUBSET DiscoveredNodes}

\* a (checkpoint, notReached, reached) triple as WaitHeight splits the nodes:
\* no node in both maps, every reached node at the checkpoint
SyncObservations ==
    UNION {
        {[checkpoint |-> c, notReached |-> nr, reached |-> [n \in R |-> c]] :
            R \in SUBSET (AllNodes \ DOMAIN nr)} :
        c \in Heights, nr \in HeightMaps}

\* the maps of observed hashes, by endpoint
HashMaps == UNION {[S -> Hashes] : S \in SUBSET AllNodes}

\* the observations of a network where the first configured node is the one
\* that fails or lags, alone or with every other node
CoreFailed == {{}, {nodeInfos[1]}, AllNodes}
CoreObservations ==
    {o \in SyncObservations :
        /\ DOMAIN o.notReached \subseteq {nodeInfos[1]}
        /\ DOMAIN o.reached \subseteq {nodeInfos[2]}}
CoreHashes == {h \in HashMaps : DOMAIN h = ConfiguredNodes}

(* ------------------------------- steps -------------------------------- *)
\* the entry point returns to its caller, and the clock has advanced by d
\* when the next call reads it
Return(d) ==
    /\ call # Idle
    /\ call' = Idle
    /\ now' = now + d
    /\ UNCHANGED <<config, notifier, amState>>

ReturnStep == \E d \in 1..(MaxTime - now) : Return(d) /\ UNCHANGED fc

OfflineStep ==
    \E failed \in SUBSET AllNodes, ok \in BOOLEAN :
        HandleOfflineAlert(failed, ok) /\ UNCHANGED fc

SyncStep ==
    \E o \in SyncObservations, ok \in BOOLEAN :
        /\ HandleSyncAlert(o.checkpoint, o.notReached, o.reached, ok)
        /\ UNCHANGED fc

InitWith(configs) ==
    /\ config \in configs
    /\ notifier \in [enabled : BOOLEAN]
    /\ now = 0
    /\ lastAlertTimes = [t \in AlertTypes |-> ZeroTime]
    /\ lastStuckHeight = 0
    /\ lastStuckTime = ZeroTime
    /\ offlineNodeStats = <<>>
    /\ call = Idle
    /\ fc = BeforeMain

\* the offline engine alone
InitOffline == InitWith(OfflineConfigs)
NextOffline == ReturnStep \/ OfflineStep
SpecOffline == InitOffline /\ [][NextOffline]_vars

\* the sync engine alone
InitSync == InitWith(SyncConfigs)
NextSync == ReturnStep \/ SyncStep
SpecSync == InitSync /\ [][NextSync]_vars

\* the three entry points on one manager
CoreOfflineStep ==
    \E failed \in CoreFailed, ok \in BOOLEAN :
        HandleOfflineAlert(failed, ok) /\ UNCHANGED fc

CoreSyncStep ==
    \E o \in CoreObservations, ok \in BOOLEAN :
        /\ HandleSyncAlert(o.checkpoint, o.notReached, o.reached, ok)
        /\ UNCHANGED fc

CoreHashStep ==
    \E checkpoint \in Heights, hashes \in CoreHashes, ok \in BOOLEAN :
        HandleHashAlert(checkpoint, hashes, ok) /\ UNCHANGED fc

Init == InitWith(UniformConfigs)
Next == ReturnStep \/ CoreOfflineStep \/ CoreSyncStep \/ CoreHashStep
Spec == Init /\ [][Next]_vars

\* the message builder of the hash alert alone
CreateHashMessageStep ==
    \E checkpoint \in Heights, hashes \in HashMaps :
        \E hashesOrder \in iterationOrders(DOMAIN hashes),
           groupOrder \in iterationOrders({hashes[e] : e \in DOMAIN hashes}) :
            /\ CreateHashMessage(checkpoint, hashes, hashesOrder, groupOrder)
            /\ UNCHANGED fc

\* hosts: DNS names of one to three labels, an IPv4 literal, a name of four
\* labels that is not one
Hosts ==
    {<<"a">>, <<"a", ".", "b">>, <<"a", ".", "c">>, <<"b", ".", "a", ".", "b">>,
     <<"1", ".", "1", ".", "1", ".", "1">>,
     <<"2", "2", "2", ".", "1", ".", "2", ".", "1", "2">>,
     <<"1", ".", "1", ".", "a", ".", "1">>}
Ports == {<<"1">>, <<"2", "1">>}
FriendlyNames ==
    {<<>>, <<"a">>, <<"A">>, <<" ", "a">>, <<"b">>, <<"1", ".", "1", ".", "1", ".", "1">>}

AbbreviateStep ==
    \E host \in Hosts, hasPort \in BOOLEAN, port \in Ports :
        CallAbbreviateIfDNSName(host, hasPort, port) /\ UNCHANGED fc

NodeStrStep ==
    \E host \in Hosts, hasPort \in BOOLEAN, port \in Ports,
       name \in FriendlyNames :
        /\ CallNodeStr([Endpoint |-> IF hasPort THEN host \o <<":">> \o port
                                     ELSE host,
                        FriendlyName |-> name])
        /\ UNCHANGED fc

\* the nodes of the messages: two nodes with the same friendly name and the
\* same first DNS label, a node at an IP address, a node whose friendly name
\* is its first label in capitals
MessageNodes ==
    {[Endpoint |-> <<"a", ".", "b", ":", "1">>, FriendlyName |-> <<"b">>],
     [Endpoint |-> <<"a", ".", "c", ":", "1">>, FriendlyName |-> <<"b">>],
     [Endpoint |-> <<"1", ".", "1", ".", "1", ".", "1", ":", "1">>,
      FriendlyName |-> <<>>],
     [Endpoint |-> <<"a">>, FriendlyName |-> <<"A">>]}

CreateOfflineMessageStep ==
    \E keys \in SUBSET AllNodes :
        \E notConnected \in [keys -> MessageNodes],
           order \in iterationOrders(keys) :
            CreateOfflineMessage(notConnected, order) /\ UNCHANGED fc

CreateSyncMessageStep ==
    \E height \in Heights, lagging \in SUBSET MessageNodes :
        \E notReached \in [lagging -> Heights],
           reached \in SUBSET (MessageNodes \ lagging) :
            \E reachedOrder \in iterationOrders(reached),
               notReachedOrder \in iterationOrders(lagging) :
                /\ CreateSyncMessage(height, notReached, reached,
                                     reachedOrder, notReachedOrder)
                /\ UNCHANGED fc

InitMessage == InitWith(UniformConfigs)
NextMessage ==
    \/ ReturnStep \/ CreateHashMessageStep \/ AbbreviateStep \/ NodeStrStep
    \/ CreateOfflineMessageStep \/ CreateSyncMessageStep
SpecMessage == InitMessage /\ [][NextMessage]_vars

(* -------------------- main: LoadConfig and Validate ------------------- *)
\* a validation that looks at the API URLs before the nodes
Validate_ApiUrlsFirst(c) ==
    IF Len(c.ApiUrls) = 0 THEN "ErrEmptyApiUrl"
    ELSE IF c.Nodes = 0 THEN "ErrEmptyNodes"
    ELSE IF c.BotAPIKey = "" THEN "ErrEmptyBotKey"
    ELSE IF c.ChatID = 0 THEN "ErrEmptyChatId"
    ELSE "nil"

\* c.Validate(): the error it returns
Validate(c) ==
    IF c.Nodes = 0 THEN "ErrEmptyNodes"
    ELSE IF Len(c.ApiUrls) = 0 THEN "ErrEmptyApiUrl"
    ELSE IF c.BotAPIKey = "" THEN "ErrEmptyBotKey"
    ELSE IF c.ChatID = 0 THEN "ErrEmptyChatId"
    ELSE "nil"

\* LoadConfig(fileName), the file read and decoded with error ioErr to the
\* configuration content: the configuration and the error it returns
LoadConfig(ioErr, content) ==
    IF ioErr # "nil" THEN [config |-> NoConfig, err |-> ioErr]
    ELSE IF Validate(content) # "nil"
    THEN [config |-> NoConfig, err |-> Validate(content)]
    ELSE [config |-> content, err |-> "nil"]

\* main calls LoadConfig and goes on to NewForkChecker with the
\* configuration, or exits on the error
MainLoadConfig(ioErr, content) ==
    /\ fc.pc = "LoadConfig"
    /\ LET loaded == LoadConfig(ioErr, content) IN
       fc' = [fc EXCEPT !.pc = IF loaded.err # "nil" THEN "exit"
                                ELSE "NewForkChecker",
                        !.content = IF ioErr # "nil" THEN NoConfig ELSE content,
                        !.cfg = loaded.config,
                        !.err = loaded.err]
    /\ UNCHANGED <<config, notifier, now, amState, call>>

(* ------------------------- main: NewForkChecker ----------------------- *)
\* the loop of fc.initCatapultClient() at the i-th URL, sdk.NewConfig
\* succeeding on the URLs of up: the client, the error and the number of
\* URLs tried
RECURSIVE initCatapultClientLoop(_, _, _)
initCatapultClientLoop(urls, i, up) ==
    IF i > Len(urls)
    THEN [catapultClient |-> "nil", err |-> "error", tried |-> Len(urls)]
    ELSE IF urls[i] \in up
    THEN [catapultClient |-> urls[i], err |-> "nil", tried |-> i]
    ELSE initCatapultClientLoop(urls, i + 1, up)

\* a client on the last URL that answers
initCatapultClient_LastAnswer(cfg, up) ==
    IF \A i \in 1..Len(cfg.ApiUrls) : cfg.ApiUrls[i] \notin up
    THEN [catapultClient |-> "nil", err |-> "error", tried |-> Len(cfg.ApiUrls)]
    ELSE [catapultClient |->
              cfg.ApiUrls[CHOOSE i \in 1..Len(cfg.ApiUrls) :
                              /\ cfg.ApiUrls[i] \in up
                              /\ \A j \in (i + 1)..Len(cfg.ApiUrls) :
                                     cfg.ApiUrls[j] \notin up],
          err |-> "nil", tried |-> Len(cfg.ApiUrls)]

\* fc.initCatapultClient(), sdk.NewConfig succeeding on the URLs of up
initCatapultClient(cfg, up) == initCatapultClientLoop(cfg.ApiUrls, 1, up)

\* a checkpoint that is always the height of the chain
initCheckpoint_AlwaysChain(cfg, chain) ==
    IF chain.err # "nil"
    THEN [checkpoint |-> 0, queried |-> TRUE, err |-> chain.err]
    ELSE [checkpoint |-> chain.height, queried |-> TRUE, err |-> "nil"]

\* fc.initCheckpoint(), GetBlockchainHeight answering chain: the checkpoint,
\* whether the chain was asked, and the error
initCheckpoint(cfg, chain) ==
    IF cfg.Checkpoint # 0
    THEN [checkpoint |-> cfg.Checkpoint, queried |-> FALSE, err |-> "nil"]
    ELSE IF chain.err # "nil"
    THEN [checkpoint |-> 0, queried |-> TRUE, err |-> chain.err]
    ELSE [checkpoint |-> chain.height, queried |-> TRUE, err |-> "nil"]

\* what the constructor met: the URLs that answer, the URLs tried, the
\* errors of initAlertManager and initPool, the answer of the chain and
\* whether it was asked
NoInit == [up |-> {}, tried |-> 0, amErr |-> "nil", poolErr |-> "nil",
           chain |-> [height |-> 0, err |-> "nil"], queried |-> FALSE]

\* NewForkChecker(config): initCatapultClient, initAlertManager, initPool and
\* initCheckpoint in this order, the first error ending it without a
\* ForkChecker
NewForkChecker(cfg, up, amErr, poolErr, chain) ==
    LET client == initCatapultClient(cfg, up)
        cp == initCheckpoint(cfg, chain)
        none(tried, queried) ==
            [ok |-> FALSE, err |-> "error", catapultClient |-> "nil",
             checkpoint |-> 0, tried |-> tried, queried |-> queried]
    IN  IF client.err # "nil" THEN none(client.tried, FALSE)
        ELSE IF amErr # "nil" THEN none(client.tried, FALSE)
        ELSE IF poolErr # "nil" THEN none(client.tried, FALSE)
        ELSE IF cp.err # "nil" THEN none(client.tried, cp.queried)
        ELSE [ok |-> TRUE, err |-> "nil",
              catapultClient |-> client.catapultClient,
              checkpoint |-> cp.checkpoint, tried |-> client.tried,
              queried |-> cp.queried]

\* main calls NewForkChecker and goes on to Start with the ForkChecker, or
\* exits on the error
MainNewForkChecker(up, amErr, poolErr, chain) ==
    /\ fc.pc = "NewForkChecker"
    /\ LET made == NewForkChecker(fc.cfg, up, amErr, poolErr, chain) IN
       fc' = [fc EXCEPT !.pc = IF made.ok THEN "Start" ELSE "exit",
                        !.err = made.err,
                        !.catapultClient = made.catapultClient,
                        !.checkpoint = made.checkpoint,
                        !.init = [up |-> up, tried |-> made.tried,
                                  amErr |-> amErr, poolErr |-> poolErr,
                                  chain |-> chain, queried |-> made.queried]]
    /\ UNCHANGED <<config, notifier, now, amState, call>>

(* ----------------------------- main: Start ---------------------------- *)
\* a loop that compares the hashes also when no node reached the checkpoint
Start_CompareWhenStuck(pc, err, reached) ==
    CASE pc = "ConnectToNodes" ->
             IF err # "nil" THEN "ConnectToNodes" ELSE "handleOfflineAlert"
      [] pc = "handleOfflineAlert" -> "WaitHeight"
      [] pc = "WaitHeight" ->
             IF err # "nil" THEN "ConnectToNodes" ELSE "handleSyncAlert"
      [] pc = "handleSyncAlert" -> "CompareHashes"
      [] pc = "CompareHashes" ->
             IF err = "nil" THEN "updateCheckpoint"
             ELSE IF err = "ErrHashesAreNotTheSame" THEN "handleHashAlert"
             ELSE "ConnectToNodes"
      [] pc = "handleHashAlert" -> "updateCheckpoint"
      [] pc = "updateCheckpoint" -> "ConnectToNodes"

\* a loop that moves the checkpoint on whatever error CompareHashes returned
Start_AdvanceOnCompareError(pc, err, reached) ==
    CASE pc = "ConnectToNodes" ->
             IF err # "nil" THEN "ConnectToNodes" ELSE "handleOfflineAlert"
      [] pc = "handleOfflineAlert" -> "WaitHeight"
      [] pc = "WaitHeight" ->
             IF err # "nil" THEN "ConnectToNodes" ELSE "handleSyncAlert"
      [] pc = "handleSyncAlert" ->
             IF DOMAIN reached = {} THEN "ConnectToNodes" ELSE "CompareHashes"
      [] pc = "CompareHashes" ->
             IF err = "ErrHashesAreNotTheSame" THEN "handleHashAlert"
             ELSE "updateCheckpoint"
      [] pc = "handleHashAlert" -> "updateCheckpoint"
      [] pc = "updateCheckpoint" -> "ConnectToNodes"

\* a loop that goes on to handleSyncAlert when WaitHeight returned an error
Start_SyncAfterWaitError(pc, err, reached) ==
    CASE pc = "ConnectToNodes" ->
             IF err # "nil" THEN "ConnectToNodes" ELSE "handleOfflineAlert"
      [] pc = "handleOfflineAlert" -> "WaitHeight"
      [] pc = "WaitHeight" -> "handleSyncAlert"
      [] pc = "handleSyncAlert" ->
             IF DOMAIN reached = {} THEN "ConnectToNodes" ELSE "CompareHashes"
      [] pc = "CompareHashes" ->
             IF err = "nil" THEN "updateCheckpoint"
             ELSE IF err = "ErrHashesAreNotTheSame" THEN "handleHashAlert"
             ELSE "ConnectToNodes"
      [] pc = "handleHashAlert" -> "updateCheckpoint"
      [] pc = "updateCheckpoint" -> "ConnectToNodes"

\* a loop that calls handleHashAlert on every error of CompareHashes
Start_HashAlertOnAnyError(pc, err, reached) ==
    CASE pc = "ConnectToNodes" ->
             IF err # "nil" THEN "ConnectToNodes" ELSE "handleOfflineAlert"
      [] pc = "handleOfflineAlert" -> "WaitHeight"
      [] pc = "WaitHeight" ->
             IF err # "nil" THEN "ConnectToNodes" ELSE "handleSyncAlert"
      [] pc = "handleSyncAlert" ->
             IF DOMAIN reached = {} THEN "ConnectToNodes" ELSE "CompareHashes"
      [] pc = "CompareHashes" ->
             IF err = "nil" THEN "updateCheckpoint" ELSE "handleHashAlert"
      [] pc = "handleHashAlert" -> "updateCheckpoint"
      [] pc = "updateCheckpoint" -> "ConnectToNodes"

\* a loop that handles the sync alert before the offline alert
Start_SyncBeforeOffline(pc, err, reached) ==
    CASE pc = "ConnectToNodes" ->
             IF err # "nil" THEN "ConnectToNodes" ELSE "WaitHeight"
      [] pc = "WaitHeight" ->
             IF err # "nil" THEN "ConnectToNodes" ELSE "handleSyncAlert"
      [] pc = "handleSyncAlert" -> "handleOfflineAlert"
      [] pc = "handleOfflineAlert" ->
             IF DOMAIN reached = {} THEN "ConnectToNodes" ELSE "CompareHashes"
      [] pc = "CompareHashes" ->
             IF err = "nil" THEN "updateCheckpoint"
             ELSE IF err = "ErrHashesAreNotTheSame" THEN "handleHashAlert"
             ELSE "ConnectToNodes"
      [] pc = "handleHashAlert" -> "updateCheckpoint"
      [] pc = "updateCheckpoint" -> "ConnectToNodes"

\* where the loop of Start goes from the statement at pc, the statement
\* having returned err and the map reached being as given
Start(pc, err, reached) ==
    CASE pc = "ConnectToNodes" ->
             IF err # "nil" THEN "ConnectToNodes" ELSE "handleOfflineAlert"
      [] pc = "handleOfflineAlert" -> "WaitHeight"
      [] pc = "WaitHeight" ->
             IF err # "nil" THEN "ConnectToNodes" ELSE "handleSyncAlert"
      [] pc = "handleSyncAlert" ->
             IF DOMAIN reached = {} THEN "ConnectToNodes" ELSE "CompareHashes"
      [] pc = "CompareHashes" ->
             IF err = "nil" THEN "updateCheckpoint"
             ELSE IF err = "ErrHashesAreNotTheSame" THEN "handleHashAlert"
             ELSE "ConnectToNodes"
      [] pc = "handleHashAlert" -> "updateCheckpoint"
      [] pc = "updateCheckpoint" -> "ConnectToNodes"

\* the statement at pc has run with error err: the record of the cycle so far
done(pc, err) == Append(fc.cycle, [call |-> pc, err |-> err])

\* main calls fc.Start(): the constructor's locals are gone, the loop begins
StartBegin ==
    /\ fc.pc = "Start"
    /\ fc' = [fc EXCEPT !.pc = "ConnectToNodes", !.init = NoInit]
    /\ UNCHANGED <<config, notifier, now, amState, call>>

\* fc.nodePool.ConnectToNodes(...) returns failed and err; a new cycle
StartConnectToNodes(failed, err) ==
    /\ fc.pc = "ConnectToNodes"
    /\ call = Idle
    /\ fc' = [fc EXCEPT !.pc = Start("ConnectToNodes", err, <<>>),
                        !.err = err,
                        !.failedConnectionsNodes = failed,
                        !.notReached = <<>>, !.reached = <<>>,
                        !.hashes = <<>>,
                        !.cycle = <<[call |-> "ConnectToNodes", err |-> err]>>]
    /\ UNCHANGED <<config, notifier, now, amState, call>>

\* fc.alertManager.handleOfflineAlert(failedConnectionsNodes)
StartHandleOfflineAlert(ok) ==
    /\ fc.pc = "handleOfflineAlert"
    /\ HandleOfflineAlert(fc.failedConnectionsNodes, ok)
    /\ fc' = [fc EXCEPT !.cycle = done("handleOfflineAlert", "nil")]

\* fc.nodePool.WaitHeight(fc.checkpoint) returns notReached, reached and err
StartWaitHeight(notReached, reached, err) ==
    /\ fc.pc = "WaitHeight"
    /\ call = Idle
    /\ fc' = [fc EXCEPT !.pc = Start("WaitHeight", err, reached),
                        !.err = err,
                        !.notReached = notReached, !.reached = reached,
                        !.cycle = done("WaitHeight", err)]
    /\ UNCHANGED <<config, notifier, now, amState, call>>

\* fc.alertManager.handleSyncAlert(fc.checkpoint, notReached, reached)
StartHandleSyncAlert(ok) ==
    /\ fc.pc = "handleSyncAlert"
    /\ HandleSyncAlert(fc.checkpoint, fc.notReached, fc.reached, ok)
    /\ fc' = [fc EXCEPT !.cycle = done("handleSyncAlert", "nil")]

\* fc.nodePool.CompareHashes(fc.checkpoint) returns hashes and err
StartCompareHashes(hashes, err) ==
    /\ fc.pc = "CompareHashes"
    /\ call = Idle
    /\ fc' = [fc EXCEPT !.pc = Start("CompareHashes", err, fc.reached),
                        !.err = err,
                        !.hashes = hashes,
                        !.cycle = done("CompareHashes", err)]
    /\ UNCHANGED <<config, notifier, now, amState, call>>

\* fc.alertManager.handleHashAlert(fc.checkpoint, hashes)
StartHandleHashAlert(ok) ==
    /\ fc.pc = "handleHashAlert"
    /\ HandleHashAlert(fc.checkpoint, fc.hashes, ok)
    /\ fc' = [fc EXCEPT !.cycle = done("handleHashAlert", "nil")]

\* the handler returns to the loop, d later
StartReturn(d) ==
    /\ fc.pc \in {"handleOfflineAlert", "handleSyncAlert", "handleHashAlert"}
    /\ Return(d)
    /\ fc' = [fc EXCEPT !.pc = Start(fc.pc, "nil", fc.reached)]

\* fc.checkpoint += fc.cfg.HeightCheckInterval
StartUpdateCheckpoint ==
    /\ fc.pc = "updateCheckpoint"
    /\ call = Idle
    /\ fc.checkpoint + fc.cfg.HeightCheckInterval <= MaxHeight
    /\ fc' = [fc EXCEPT !.pc = Start("updateCheckpoint", "nil", fc.reached),
                        !.checkpoint = @ + fc.cfg.HeightCheckInterval]
    /\ UNCHANGED <<config, notifier, now, amState, call>>

\* the configurations a file can hold: with and without nodes, URLs, bot
\* key and chat
ApiUrlLists == {<<>>, <<"u1">>, <<"u1", "u2">>}
Configs ==
    [Nodes : {0, Cardinality(ConfiguredNodes)}, ApiUrls : ApiUrlLists,
     BotAPIKey : {"", "key"}, ChatID : {0, 1}, Checkpoint : Heights,
     HeightCheckInterval : {1}]

\* the same files with heightCheckInterval left out or set to 0, which
\* Validate does not look at
IdleConfigs == {[c EXCEPT !.HeightCheckInterval = 0] : c \in Configs}

\* the answers of GetBlockchainHeight
ChainAnswers ==
    {[height |-> h, err |-> "nil"] : h \in Heights}
        \cup {[height |-> 0, err |-> "error"]}

\* the errors of CompareHashes
CompareErrors == {"nil", "ErrHashesAreNotTheSame", "ErrNoConnectedPeers", "error"}

\* main, from LoadConfig to the loop of Start
InitMain == InitWith(UniformConfigs)
NextMainOver(contents) ==
    \/ \E ioErr \in {"nil", "error"}, content \in contents :
           MainLoadConfig(ioErr, content)
    \/ \E up \in SUBSET {"u1", "u2"}, amErr \in {"nil", "error"},
          poolErr \in {"nil", "error"}, chain \in ChainAnswers :
           MainNewForkChecker(up, amErr, poolErr, chain)
    \/ StartBegin
    \/ \E failed \in CoreFailed, err \in {"nil", "error"} :
           StartConnectToNodes(IF err = "nil" THEN failed ELSE {}, err)
    \/ \E ok \in BOOLEAN : StartHandleOfflineAlert(ok)
    \/ \E o \in CoreObservations, err \in {"nil", "error"} :
           /\ o.checkpoint = fc.checkpoint
           /\ StartWaitHeight(IF err = "nil" THEN o.notReached ELSE <<>>,
                              IF err = "nil" THEN o.reached ELSE <<>>, err)
    \/ \E ok \in BOOLEAN : StartHandleSyncAlert(ok)
    \/ \E hashes \in CoreHashes, err \in CompareErrors :
           StartCompareHashes(hashes, err)
    \/ \E ok \in BOOLEAN : StartHandleHashAlert(ok)
    \/ \E d \in 1..(MaxTime - now) : StartReturn(d)
    \/ StartUpdateCheckpoint
NextMain == NextMainOver(Configs)
SpecMain == InitMain /\ [][NextMain]_vars

\* main on a file whose heightCheckInterval is 0
InitIdle == InitWith(UniformConfigs)
NextIdle == NextMainOver(IdleConfigs)
SpecIdle == InitIdle /\ [][NextIdle]_vars

(* ---------------------- the earlier Notifier's tests ------------------ *)
\* a call of n.canAlert(lastAlertTime) on a Notifier with n.alarmInterval
CallCanAlert(lastAlertTime, alarmInterval) ==
    /\ call = Idle
    /\ call' = [op |-> "canAlert", lastAlertTime |-> lastAlertTime,
                alarmInterval |-> alarmInterval,
                result |-> canAlert(lastAlertTime, alarmInterval)]
    /\ UNCHANGED <<config, notifier, now, amState, fc>>

\* TestNotifierIsRespectingAlarmInterval before its loop: the interval, the
\* duration of the test and the sleep of an iteration; the loop will end
\* within the time of the model
PollBegin(alarmInterval, testDuration, sleep) ==
    /\ call = Idle
    /\ \E k \in 1..MaxTime : /\ k * sleep >= testDuration
                             /\ now + k * sleep <= MaxTime
    /\ call' = [op |-> "poll", alarmInterval |-> alarmInterval,
                testDuration |-> testDuration, sleep |-> sleep,
                startTime |-> now, lastSyncAlertTime |-> ZeroTime,
                actualAlertCount |-> 0]
    /\ UNCHANGED <<config, notifier, now, amState, fc>>

\* an iteration of the loop: the alert is counted and stamped when canAlert
\* allows it, then the test sleeps
Poll ==
    /\ call.op = "poll"
    /\ Since(call.startTime) < call.testDuration
    /\ call' = IF canAlert(call.lastSyncAlertTime, call.alarmInterval)
               THEN [call EXCEPT !.actualAlertCount = @ + 1,
                                 !.lastSyncAlertTime = now]
               ELSE call
    /\ now' = now + call.sleep
    /\ UNCHANGED <<config, notifier, amState, fc>>

\* the earlier Notifier under its tests
InitLegacy == InitWith(UniformConfigs)
NextLegacy ==
    \/ ReturnStep
    \/ \E lastAlertTime \in {ZeroTime} \cup 0..now,
          alarmInterval \in 0..MaxInterval :
           CallCanAlert(lastAlertTime, alarmInterval)
    \/ \E alarmInterval \in 0..MaxInterval, testDuration \in 1..MaxTime,
          sleep \in 1..MaxInterval :
           PollBegin(alarmInterval, testDuration, sleep)
    \/ Poll
SpecLegacy == InitLegacy /\ [][NextLegacy]_vars

(* --------------- the sync engine with the record of progress ---------- *)
\* a handleSyncAlert call, the record of progress kept with it
ProgressSyncStep ==
    \E o \in SyncObservations, ok \in BOOLEAN :
        /\ HandleSyncAlert(o.checkpoint, o.notReached, o.reached, ok)
        /\ fc' = [fc EXCEPT !.progress = progressAfter(o.checkpoint,
                                                       o.notReached, o.reached)]

InitProgress == InitWith(SyncConfigs)
NextProgress == ReturnStep \/ ProgressSyncStep
SpecProgress == InitProgress /\ [][NextProgress]_vars

(* ----------- the sync engine on a chain that stops for good ----------- *)
\* a handleSyncAlert call of the loop while the chain moves
MovingSyncStep ==
    /\ ~fc.stalled
    /\ \E o \in CoreObservations, ok \in BOOLEAN :
           /\ HandleSyncAlert(o.checkpoint, o.notReached, o.reached, ok)
           /\ UNCHANGED fc

\* the chain stops while the loop waits for checkpoint c: from here on
\* WaitHeight finds no node at c
ChainStops ==
    /\ call = Idle
    /\ ~fc.stalled
    /\ \E c \in Heights : fc' = [fc EXCEPT !.stalled = TRUE, !.checkpoint = c]
    /\ UNCHANGED <<config, notifier, now, amState, call>>

\* a handleSyncAlert call of the loop once the chain has stopped: reached is
\* empty (the first configured node stands for the nodes left behind, whose
\* heights the stuck branch does not read), the continue of Start keeps the
\* checkpoint, and the transport delivers what it is given
StalledSyncStep ==
    /\ fc.stalled
    /\ \E notReached \in {m \in HeightMaps : DOMAIN m = {nodeInfos[1]}} :
           /\ HandleSyncAlert(fc.checkpoint, notReached, <<>>, TRUE)
           /\ UNCHANGED fc

\* Start never leaves its for loop and bot.Send returns: a call that can be
\* made is made, and a call under way returns with the clock advanced
InitStall == InitWith(SyncConfigs)
NextStall == ReturnStep \/ MovingSyncStep \/ ChainStops \/ StalledSyncStep
SpecStall ==
    /\ InitStall /\ [][NextStall]_vars
    /\ WF_vars(ReturnStep) /\ WF_vars(StalledSyncStep)

(* -------- the offline engine with nodes that go down for good --------- *)
\* a handleOfflineAlert call of the loop while no node is down for good
UpOfflineStep ==
    /\ fc.down = {}
    /\ \E failed \in SUBSET AllNodes, ok \in BOOLEAN :
           HandleOfflineAlert(failed, ok) /\ UNCHANGED fc

\* configured node n goes down: from here on ConnectToNodes reports it in
\* failedConnectionsNodes
NodeGoesDown ==
    /\ call = Idle
    /\ \E n \in ConfiguredNodes \ fc.down :
           fc' = [fc EXCEPT !.down = @ \cup {n}]
    /\ UNCHANGED <<config, notifier, now, amState, call>>

\* a handleOfflineAlert call of the loop with nodes down for good: they are
\* among the failed ones, and the transport delivers what it is given
OutageOfflineStep ==
    /\ fc.down # {}
    /\ \E failed \in {F \in SUBSET AllNodes : fc.down \subseteq F} :
           HandleOfflineAlert(failed, TRUE) /\ UNCHANGED fc

\* Start never leaves its for loop and bot.Send returns: a call that can be
\* made is made, and a call under way returns with the clock advanced
InitOutage == InitWith(OfflineConfigs)
NextOutage == ReturnStep \/ UpOfflineStep \/ NodeGoesDown \/ OutageOfflineStep
SpecOutage ==
    /\ InitOutage /\ [][NextOutage]_vars
    /\ WF_vars(ReturnStep) /\ WF_vars(OutageOfflineStep)

(* ====================================================================== *)
(* Properties of handleOfflineAlert, checked under SpecOffline            *)
(* ====================================================================== *)
\* a step that is a call of handleOfflineAlert; call' holds its arguments
OfflineCall == call = Idle /\ call'.op = "offline"

\* the last offline alert time the loop reads for node n: that of its entry
\* before the call, the zero time when it has none
lastOfflineAlertTimeBefore(n) ==
    IF n \in DOMAIN offlineNodeStats
    THEN offlineNodeStats[n].lastOfflineAlertTime
    ELSE ZeroTime

\* the count of node n after the call's increment is over the threshold
OverThresholdAfter(n) ==
    /\ n \in DOMAIN offlineNodeStats'
    /\ offlineNodeStats'[n].consecutiveOfflineCount
           > config.OfflineConsecutiveBlocksThreshold

\* C1 as stated: a handleOfflineAlert call attempts an alert iff some
\* configured failed node is over the threshold after the increment and was
\* never alerted or was alerted at least OfflineAlertRepeatInterval ago
C1_AttemptIffAtLeastInterval ==
    [][OfflineCall =>
        (call'.attempted <=>
            \E n \in ConfiguredNodes \cap call'.args.failed :
                /\ OverThresholdAfter(n)
                /\ \/ lastOfflineAlertTimeBefore(n) = ZeroTime
                   \/ now - lastOfflineAlertTimeBefore(n)
                          >= getOfflineAlertRepeatInterval)]_vars

\* C1 amended: a handleOfflineAlert call attempts an alert iff some configured
\* failed node is over the threshold after the increment and was never
\* alerted or was alerted more than OfflineAlertRepeatInterval ago; with
\* every count at or under the threshold nothing is attempted
C1_AttemptIffOverInterval ==
    [][OfflineCall =>
        /\ call'.attempted <=>
              \E n \in ConfiguredNodes \cap call'.args.failed :
                  /\ OverThresholdAfter(n)
                  /\ \/ lastOfflineAlertTimeBefore(n) = ZeroTime
                     \/ now - lastOfflineAlertTimeBefore(n)
                            > getOfflineAlertRepeatInterval
        /\ (\A n \in DOMAIN offlineNodeStats' :
                offlineNodeStats'[n].consecutiveOfflineCount
                    <= config.OfflineConsecutiveBlocksThreshold)
               => ~call'.attempted]_vars

\* C1 witness: an alert is attempted again for a node already alerted, the
\* repeat interval being positive and over (the send fails, so the earlier
\* stamp is still to be read)
C1_Witness ==
    /\ call.op = "offline" /\ call.attempted /\ ~call.delivered
    /\ getOfflineAlertRepeatInterval > 0
    /\ \E n \in ConfiguredNodes \cap call.args.failed :
           /\ n \in DOMAIN offlineNodeStats
           /\ offlineNodeStats[n].consecutiveOfflineCount
                  = config.OfflineConsecutiveBlocksThreshold + 2
           /\ offlineNodeStats[n].lastOfflineAlertTime # ZeroTime
           /\ now - offlineNodeStats[n].lastOfflineAlertTime
                  > getOfflineAlertRepeatInterval

\* C2: in a handleOfflineAlert call a configured node in failedConnections
\* ends with count 1 when it had no entry and with its count plus one
\* otherwise; a configured node not in failedConnections ends with no entry
C2_CountStepsByOne ==
    [][OfflineCall =>
        \A n \in ConfiguredNodes :
            IF n \in call'.args.failed
            THEN /\ n \in DOMAIN offlineNodeStats'
                 /\ offlineNodeStats'[n].consecutiveOfflineCount =
                        IF n \in DOMAIN offlineNodeStats
                        THEN offlineNodeStats[n].consecutiveOfflineCount + 1
                        ELSE 1
            ELSE n \notin DOMAIN offlineNodeStats']_vars

\* C2 witness: a call that counts one node up to 3 and starts another at 1,
\* the second having been reachable in the call before
C2_Witness ==
    /\ call.op = "offline"
    /\ \E n, m \in ConfiguredNodes \cap call.args.failed :
           /\ n \in DOMAIN offlineNodeStats /\ m \in DOMAIN offlineNodeStats
           /\ offlineNodeStats[n].consecutiveOfflineCount = 3
           /\ offlineNodeStats[m].consecutiveOfflineCount = 1

\* C3: after a handleOfflineAlert call no configured node absent from its
\* failedConnections has an entry in offlineNodeStats
C3_NoEntryForReachable ==
    call.op = "offline" =>
        \A n \in ConfiguredNodes \ call.args.failed :
            n \notin DOMAIN offlineNodeStats

\* C3 witness: an alert is delivered for one configured node in a call that
\* finds the other configured node reachable
C3_Witness ==
    /\ call.op = "offline" /\ call.delivered
    /\ ConfiguredNodes \ call.args.failed # {}
    /\ DOMAIN offlineNodeStats # {}

\* C9: the OfflineAlert handed to the sender lists all of failedConnections;
\* a delivered alert stamps now on exactly the keys of failedConnections that
\* have an entry, creates no entry and leaves every other entry as the
\* counting left it
C9_PayloadAndStamping ==
    [][OfflineCall /\ call'.attempted =>
        /\ call'.alert = [type |-> OfflineAlertType,
                          NotConnected |-> call'.args.failed]
        /\ call'.delivered =>
              /\ DOMAIN offlineNodeStats' =
                     (DOMAIN offlineNodeStats \ ConfiguredNodes)
                         \cup (ConfiguredNodes \cap call'.args.failed)
              /\ \A k \in DOMAIN offlineNodeStats' :
                     IF k \in call'.args.failed
                     THEN offlineNodeStats'[k].lastOfflineAlertTime = now
                     ELSE offlineNodeStats'[k] = offlineNodeStats[k]]_vars

\* C9 witness: a delivered alert for a call whose failedConnections holds a
\* discovered node and a configured node that is not over the threshold, and
\* that node is stamped
C9_Witness ==
    /\ call.op = "offline" /\ call.delivered
    /\ call.args.failed \cap DiscoveredNodes # {}
    /\ call.alert.NotConnected = call.args.failed
    /\ \E n \in ConfiguredNodes \cap call.args.failed :
           /\ offlineNodeStats[n].consecutiveOfflineCount
                  <= config.OfflineConsecutiveBlocksThreshold
           /\ offlineNodeStats[n].lastOfflineAlertTime = now

(* ====================================================================== *)
(* Properties of handleSyncAlert, checked under SpecSync                  *)
(* ====================================================================== *)
\* a step that is a call of handleSyncAlert; call' holds its arguments
SyncCall == call = Idle /\ call'.op = "sync"

\* a handleSyncAlert call that observes the chain stuck: some node has not
\* reached the checkpoint and none has
StuckCall ==
    /\ SyncCall
    /\ DOMAIN call'.args.notReached # {}
    /\ DOMAIN call'.args.reached = {}

\* the manager as initAlertManager builds it
FreshManager ==
    /\ lastAlertTimes = [t \in AlertTypes |-> ZeroTime]
    /\ lastStuckHeight = 0
    /\ lastStuckTime = ZeroTime
    /\ offlineNodeStats = <<>>

\* C4 as stated: the first stuck observation of a checkpoint, on a fresh
\* manager (whatever the checkpoint, 0 included) or of a checkpoint other
\* than the recorded one, sends nothing and records the checkpoint and now
C4_FirstStuckObservationSilent ==
    [][StuckCall /\ (FreshManager \/ call'.args.checkpoint # lastStuckHeight) =>
        /\ ~call'.should
        /\ ~call'.attempted
        /\ lastStuckHeight' = call'.args.checkpoint
        /\ lastStuckTime' = now]_vars

\* C5 as stated: with checkpoint c recorded stuck at t0, a later stuck call
\* for c evaluates the stuck condition true iff now - t0 is at least
\* StuckDurationThreshold
C5_StuckIffAtLeastThreshold ==
    [][/\ StuckCall
       /\ call'.args.checkpoint = lastStuckHeight
       /\ lastStuckTime # ZeroTime
       => (call'.should <=> now - lastStuckTime >= getStuckDurationThreshold)]_vars

\* C5 amended: with checkpoint c recorded stuck at t0, a later stuck call for
\* c evaluates the stuck condition true iff now - t0 is more than
\* StuckDurationThreshold, and leaves the record (c, t0) as it is, so every
\* later call for c past the threshold evaluates true as well
C5_StuckIffOverThreshold ==
    [][/\ StuckCall
       /\ call'.args.checkpoint = lastStuckHeight
       /\ lastStuckTime # ZeroTime
       => /\ call'.should <=> now - lastStuckTime > getStuckDurationThreshold
          /\ lastStuckHeight' = lastStuckHeight
          /\ lastStuckTime' = lastStuckTime]_vars

\* C5 witness: the stuck condition evaluates true for the recorded checkpoint
\* in a call made after a Sync alert was delivered (the gate holds this one
\* back): a cycle past the first crossing
C5_Witness ==
    /\ call.op = "sync" /\ call.should /\ ~call.attempted
    /\ DOMAIN call.args.reached = {}
    /\ call.args.checkpoint = lastStuckHeight
    /\ lastStuckTime # ZeroTime
    /\ now - lastStuckTime > getStuckDurationThreshold
    /\ lastAlertTimes[SyncAlertType] # ZeroTime

\* the configured nodes of notReached that are at least
\* OutOfSyncBlocksThreshold blocks behind the checkpoint
LaggingConfigured(checkpoint, notReached) ==
    {n \in ConfiguredNodes \cap DOMAIN notReached :
        checkpoint - notReached[n] >= config.OutOfSyncBlocksThreshold}

\* C6 as stated: with reached and notReached both non-empty,
\* shouldSendSyncAlert is true iff the number of lagging configured nodes is
\* at least OutOfSyncCriticalNodesThreshold
C6_OutOfSyncIffCountReached ==
    (/\ call.op = "sync"
     /\ DOMAIN call.args.notReached # {}
     /\ DOMAIN call.args.reached # {})
    => (call.should <=>
           Cardinality(LaggingConfigured(call.args.checkpoint,
                                         call.args.notReached))
               >= config.OutOfSyncCriticalNodesThreshold)

\* C7 as stated: a handleSyncAlert call sends iff its condition holds and no
\* Sync alert was delivered yet or the last one was delivered at least
\* SyncAlertRepeatInterval ago
C7_SendIffAtLeastInterval ==
    [][SyncCall =>
        (call'.attempted <=>
            /\ call'.should
            /\ \/ lastAlertTimes[SyncAlertType] = ZeroTime
               \/ now - lastAlertTimes[SyncAlertType]
                      >= getSyncAlertRepeatInterval)]_vars

\* C7 amended: a handleSyncAlert call hands a SyncAlert to the sender iff its
\* condition holds and no Sync alert was delivered yet or the last one was
\* delivered more than SyncAlertRepeatInterval ago; the alert reaches the
\* transport iff in addition the notifier is enabled; a delivered alert
\* stamps now, more than the interval after the stamp before it, and a call
\* that delivers nothing leaves the stamp alone
C7_SendIffOverInterval ==
    [][SyncCall =>
        /\ call'.attempted <=>
              /\ call'.should
              /\ \/ lastAlertTimes[SyncAlertType] = ZeroTime
                 \/ now - lastAlertTimes[SyncAlertType]
                        > getSyncAlertRepeatInterval
        /\ call'.transmitted <=> (call'.attempted /\ notifier.enabled)
        /\ call'.delivered => call'.transmitted
        /\ lastAlertTimes'[SyncAlertType] =
               IF call'.delivered THEN now ELSE lastAlertTimes[SyncAlertType]
        /\ (call'.delivered /\ lastAlertTimes[SyncAlertType] # ZeroTime)
               => lastAlertTimes'[SyncAlertType] - lastAlertTimes[SyncAlertType]
                      > getSyncAlertRepeatInterval]_vars

\* C7 witness: with a positive repeat interval, a Sync alert was delivered
\* before and, the interval being over, a second one goes to the transport
\* (which fails it, so the stamp of the first is still to be read)
C7_Witness ==
    /\ call.op = "sync" /\ call.transmitted /\ ~call.delivered
    /\ getSyncAlertRepeatInterval > 0
    /\ lastAlertTimes[SyncAlertType] # ZeroTime
    /\ now - lastAlertTimes[SyncAlertType] > getSyncAlertRepeatInterval

(* ====================================================================== *)
(* Properties of handleHashAlert and of the sender, checked under Spec    *)
(* ====================================================================== *)
\* a step that is a call of handleHashAlert; call' holds its arguments
HashCall == call = Idle /\ call'.op = "hash"

\* C8: every handleHashAlert call with a non-empty hash map hands a HashAlert
\* with its checkpoint and its hashes to the sender, whatever the last-alert
\* times and the intervals of the configuration; the alert goes to the
\* transport whenever the notifier is enabled
C8_HashAlertUngated ==
    [][HashCall /\ DOMAIN call'.args.hashes # {} =>
        /\ call'.attempted
        /\ call'.alert = [type |-> HashAlertType,
                          Height |-> call'.args.checkpoint,
                          Hashes |-> call'.args.hashes]
        /\ call'.transmitted <=> notifier.enabled]_vars

\* C8 witness: a hash alert goes to the transport while the last Hash alert
\* and the last Sync alert were both delivered within the repeat interval
C8_Witness ==
    /\ call.op = "hash" /\ call.transmitted /\ ~call.delivered
    /\ getSyncAlertRepeatInterval > 0
    /\ lastAlertTimes[HashAlertType] # ZeroTime
    /\ now - lastAlertTimes[HashAlertType] <= getSyncAlertRepeatInterval
    /\ lastAlertTimes[SyncAlertType] # ZeroTime
    /\ now - lastAlertTimes[SyncAlertType] <= getSyncAlertRepeatInterval

\* a step that is a call of an entry point whose alert the transport fails
FailedSend == call = Idle /\ call'.transmitted /\ ~call'.delivered

\* C10: a call whose alert the transport fails leaves lastAlertTimes and the
\* lastOfflineAlertTime of every node as they were, keeps the counting of an
\* offline call (count 1 or count plus one for a failed configured node, no
\* entry for a reachable one) and the stuck record, and ends as a call that
\* returns
C10_FailedSendKeepsStamps ==
    [][FailedSend =>
        /\ lastAlertTimes' = lastAlertTimes
        /\ \A n \in DOMAIN offlineNodeStats' :
               offlineNodeStats'[n].lastOfflineAlertTime
                   = lastOfflineAlertTimeBefore(n)
        /\ call'.op = "offline" =>
               offlineNodeStats' = shouldSendOfflineAlert(call'.args.failed).stats
        /\ call'.op # "offline" => offlineNodeStats' = offlineNodeStats
        /\ call'.op # "sync" =>
               /\ lastStuckHeight' = lastStuckHeight
               /\ lastStuckTime' = lastStuckTime
        /\ call'.op = "sync" =>
               LET stuck == shouldSendSyncAlert(call'.args.checkpoint,
                                                call'.args.notReached,
                                                call'.args.reached)
               IN  /\ lastStuckHeight' = stuck.lastStuckHeight
                   /\ lastStuckTime' = stuck.lastStuckTime
        /\ call'.op \in {"offline", "sync", "hash"}]_vars

\* C10 witness: the transport fails the offline alert of a call that counted
\* a node up, the node and the Offline kind having been stamped by an earlier
\* delivered alert; both stamps are the earlier ones
C10_Witness ==
    /\ call.op = "offline" /\ call.transmitted /\ ~call.delivered
    /\ lastAlertTimes[OfflineAlertType] # ZeroTime
    /\ lastAlertTimes[OfflineAlertType] < now
    /\ \E n \in ConfiguredNodes \cap call.args.failed :
           /\ n \in DOMAIN offlineNodeStats
           /\ offlineNodeStats[n].consecutiveOfflineCount >= 3
           /\ offlineNodeStats[n].lastOfflineAlertTime
                  = lastAlertTimes[OfflineAlertType]

(* ====================================================================== *)
(* Properties of the three entry points together, checked under Spec      *)
(* ====================================================================== *)
\* node n has an entry that qualifies for an alert at the next call that
\* finds it offline: its count is over the threshold and its last alert is
\* never or more than the repeat interval ago
NodeDue(n) ==
    /\ n \in DOMAIN offlineNodeStats
    /\ offlineNodeStats[n].consecutiveOfflineCount
           > config.OfflineConsecutiveBlocksThreshold
    /\ \/ offlineNodeStats[n].lastOfflineAlertTime = ZeroTime
       \/ now - offlineNodeStats[n].lastOfflineAlertTime
              > getOfflineAlertRepeatInterval

\* the repeat-interval gate of the Sync alerts is open
SyncDue ==
    \/ lastAlertTimes[SyncAlertType] = ZeroTime
    \/ now - lastAlertTimes[SyncAlertType] > getSyncAlertRepeatInterval

\* C11: an Offline or Sync alert whose send failed is attempted again in the
\* next call in which its condition holds: a failed offline send leaves a
\* failed configured node qualifying, a qualifying node stays so until the
\* next handleOfflineAlert call, and that call attempts an alert if the node
\* is still offline; a failed sync send leaves the Sync gate open, the gate
\* stays open until a Sync alert is delivered, and a handleSyncAlert call
\* whose condition holds attempts an alert while the gate is open
C11_RetryAfterFailedSend ==
    [][/\ (FailedSend /\ call'.op = "offline") =>
              \E n \in ConfiguredNodes \cap call'.args.failed : NodeDue(n)'
       /\ \A n \in ConfiguredNodes :
              /\ (NodeDue(n) /\ ~OfflineCall) => NodeDue(n)'
              /\ (NodeDue(n) /\ OfflineCall /\ n \in call'.args.failed)
                     => call'.attempted
       /\ (FailedSend /\ call'.op = "sync") => SyncDue'
       /\ (SyncDue /\ ~(SyncCall /\ call'.delivered)) => SyncDue'
       /\ (SyncDue /\ SyncCall /\ call'.should) => call'.attempted]_vars

\* C11 witness: with the notifier enabled and a positive repeat interval, an
\* offline alert is attempted for a node one call after the call that first
\* qualified it, less than the interval after that call: the node was never
\* stamped, so the first attempt failed
C11_Witness ==
    /\ notifier.enabled
    /\ call.op = "offline" /\ call.attempted /\ ~call.delivered
    /\ getOfflineAlertRepeatInterval > 0
    /\ now <= getOfflineAlertRepeatInterval
    /\ lastAlertTimes[OfflineAlertType] = ZeroTime
    /\ \E n \in ConfiguredNodes \cap call.args.failed :
           /\ n \in DOMAIN offlineNodeStats
           /\ offlineNodeStats[n].consecutiveOfflineCount
                  = config.OfflineConsecutiveBlocksThreshold + 2
           /\ offlineNodeStats[n].lastOfflineAlertTime = ZeroTime

\* C12: lastAlertTimes[k] changes only in a call that delivers an alert of
\* kind k, which sets it to now; handleHashAlert leaves lastAlertTimes[Sync],
\* the stuck record and offlineNodeStats alone, handleSyncAlert leaves
\* lastAlertTimes[Offline], lastAlertTimes[Hash] and offlineNodeStats alone,
\* handleOfflineAlert leaves lastAlertTimes[Sync], lastAlertTimes[Hash] and
\* the stuck record alone
C12_StampOnlyOwnKind ==
    [][/\ \A k \in AlertTypes :
              lastAlertTimes'[k] # lastAlertTimes[k] =>
                  /\ call = Idle /\ call'.delivered
                  /\ call'.alert.type = k
                  /\ lastAlertTimes'[k] = now
       /\ (call = Idle /\ call'.delivered) =>
              lastAlertTimes'[call'.alert.type] = now
       /\ HashCall =>
              /\ call'.alert.type = HashAlertType
              /\ lastAlertTimes'[SyncAlertType] = lastAlertTimes[SyncAlertType]
              /\ lastAlertTimes'[OfflineAlertType]
                     = lastAlertTimes[OfflineAlertType]
              /\ lastStuckHeight' = lastStuckHeight
              /\ lastStuckTime' = lastStuckTime
              /\ offlineNodeStats' = offlineNodeStats
       /\ SyncCall =>
              /\ call'.attempted => call'.alert.type = SyncAlertType
              /\ lastAlertTimes'[OfflineAlertType]
                     = lastAlertTimes[OfflineAlertType]
              /\ lastAlertTimes'[HashAlertType] = lastAlertTimes[HashAlertType]
              /\ offlineNodeStats' = offlineNodeStats
       /\ OfflineCall =>
              /\ call'.attempted => call'.alert.type = OfflineAlertType
              /\ lastAlertTimes'[SyncAlertType] = lastAlertTimes[SyncAlertType]
              /\ lastAlertTimes'[HashAlertType] = lastAlertTimes[HashAlertType]
              /\ lastStuckHeight' = lastStuckHeight
              /\ lastStuckTime' = lastStuckTime]_vars

\* C12 witness: a Hash alert is delivered and stamped on a manager that holds
\* an earlier Sync stamp, a stuck record and an offline entry
C12_Witness ==
    /\ call.op = "hash" /\ call.delivered
    /\ lastAlertTimes[HashAlertType] = now
    /\ lastAlertTimes[SyncAlertType] # ZeroTime
    /\ lastAlertTimes[SyncAlertType] < now
    /\ lastStuckTime # ZeroTime
    /\ DOMAIN offlineNodeStats # {}

(* ====================================================================== *)
(* Further properties of handleOfflineAlert, checked under SpecOffline    *)
(* ====================================================================== *)
\* the counts a handleOfflineAlert call with failedConnections `failed`
\* leaves, from the entries before it and from `failed` alone
countsAfter(failed) ==
    [n \in (DOMAIN offlineNodeStats \ ConfiguredNodes)
              \cup (ConfiguredNodes \cap failed) |->
        IF n \notin ConfiguredNodes
        THEN offlineNodeStats[n].consecutiveOfflineCount
        ELSE IF n \in DOMAIN offlineNodeStats
        THEN offlineNodeStats[n].consecutiveOfflineCount + 1
        ELSE 1]

\* C13: the entries and counts a handleOfflineAlert call leaves are those of
\* countsAfter, a function of the entries before and of failedConnections
\* only: the same whether some node qualifies or none, whether the notifier
\* is enabled or not, and whether the transport delivers or fails
C13_CountingUnconditional ==
    [][OfflineCall =>
        [n \in DOMAIN offlineNodeStats' |->
            offlineNodeStats'[n].consecutiveOfflineCount]
          = countsAfter(call'.args.failed)]_vars

\* C13 witness: with the notifier disabled a call qualifies a node and sends
\* nothing, the node having qualified in the call before as well; it is
\* counted up all the same, and the other configured node, reachable, has no
\* entry
C13_Witness ==
    /\ ~notifier.enabled
    /\ call.op = "offline" /\ call.should /\ ~call.transmitted
    /\ ConfiguredNodes \ call.args.failed # {}
    /\ DOMAIN offlineNodeStats = ConfiguredNodes \cap call.args.failed
    /\ \E n \in DOMAIN offlineNodeStats :
           offlineNodeStats[n].consecutiveOfflineCount
               = config.OfflineConsecutiveBlocksThreshold + 2

(* ====================================================================== *)
(* Further properties of handleSyncAlert, checked under SpecSync          *)
(* ====================================================================== *)
\* C14: a handleSyncAlert call with an empty notReached, whatever its
\* checkpoint and its reached map, sends nothing and leaves lastStuckHeight,
\* lastStuckTime, lastAlertTimes and offlineNodeStats unchanged
C14_NoOpWhenAllReached ==
    [][(SyncCall /\ DOMAIN call'.args.notReached = {}) =>
        /\ ~call'.should /\ ~call'.attempted /\ ~call'.transmitted
        /\ call'.alert = NoAlert
        /\ lastStuckHeight' = lastStuckHeight
        /\ lastStuckTime' = lastStuckTime
        /\ lastAlertTimes' = lastAlertTimes
        /\ offlineNodeStats' = offlineNodeStats]_vars

\* C14 witness: a call with both maps empty, for the checkpoint that was
\* recorded stuck longer ago than the threshold, the Sync gate being open
C14_Witness ==
    /\ call.op = "sync"
    /\ DOMAIN call.args.notReached = {} /\ DOMAIN call.args.reached = {}
    /\ call.args.checkpoint = lastStuckHeight
    /\ lastStuckTime # ZeroTime
    /\ now - lastStuckTime > getStuckDurationThreshold
    /\ SyncDue

(* ====================================================================== *)
(* Further properties of the three entry points, checked under Spec       *)
(* ====================================================================== *)
\* C15: lastStuckHeight and lastStuckTime change only in a handleSyncAlert
\* call with a non-empty notReached, an empty reached and a checkpoint other
\* than lastStuckHeight, which sets them to the checkpoint and now; a call
\* for the recorded checkpoint, a call with a non-empty reached,
\* handleOfflineAlert and handleHashAlert leave them as they are
C15_StuckRecordFrame ==
    [][/\ (lastStuckHeight' # lastStuckHeight \/ lastStuckTime' # lastStuckTime)
              => /\ StuckCall
                 /\ call'.args.checkpoint # lastStuckHeight
       /\ (StuckCall /\ call'.args.checkpoint # lastStuckHeight)
              => /\ lastStuckHeight' = call'.args.checkpoint
                 /\ lastStuckTime' = now
       /\ (SyncCall /\ call'.args.checkpoint = lastStuckHeight)
              => /\ lastStuckHeight' = lastStuckHeight
                 /\ lastStuckTime' = lastStuckTime
       /\ (SyncCall /\ DOMAIN call'.args.reached # {})
              => /\ lastStuckHeight' = lastStuckHeight
                 /\ lastStuckTime' = lastStuckTime
       /\ (OfflineCall \/ HashCall)
              => /\ lastStuckHeight' = lastStuckHeight
                 /\ lastStuckTime' = lastStuckTime]_vars

\* C15 witness: a handleSyncAlert call in which a node reached a checkpoint
\* other than the one recorded stuck earlier; the record is still there
C15_Witness ==
    /\ call.op = "sync"
    /\ DOMAIN call.args.reached # {} /\ DOMAIN call.args.notReached # {}
    /\ call.args.checkpoint # lastStuckHeight
    /\ lastStuckTime # ZeroTime /\ lastStuckTime < now

(* ====================================================================== *)
(* Thresholds of zero                                                     *)
(* ====================================================================== *)
\* C16 (under SpecOffline): with OfflineConsecutiveBlocksThreshold = 0, the
\* first handleOfflineAlert call on a fresh manager that finds a configured
\* node in failedConnections attempts an Offline alert
C16_ZeroThresholdAlertsAtOnce ==
    [][(/\ OfflineCall
        /\ FreshManager
        /\ config.OfflineConsecutiveBlocksThreshold = 0
        /\ ConfiguredNodes \cap call'.args.failed # {})
       => /\ call'.should /\ call'.attempted
          /\ call'.alert = [type |-> OfflineAlertType,
                            NotConnected |-> call'.args.failed]]_vars

\* C16 witness: the first call of a run, with threshold 0 and a positive
\* repeat interval, counts a configured node to 1 and attempts an alert
C16_Witness ==
    /\ now = 0
    /\ call.op = "offline" /\ call.attempted
    /\ config.OfflineConsecutiveBlocksThreshold = 0
    /\ getOfflineAlertRepeatInterval > 0
    /\ \E n \in ConfiguredNodes \cap call.args.failed :
           offlineNodeStats[n].consecutiveOfflineCount = 1

\* C17 as stated (under SpecSync): with OutOfSyncCriticalNodesThreshold = 0,
\* a non-empty reached and a non-empty notReached, shouldSendSyncAlert
\* returns true, also when no configured node lags
C17_ZeroCriticalNodesAlwaysTrue ==
    (/\ call.op = "sync"
     /\ config.OutOfSyncCriticalNodesThreshold = 0
     /\ DOMAIN call.args.notReached # {}
     /\ DOMAIN call.args.reached # {})
    => call.should

(* ====================================================================== *)
(* Spacing of the Offline alerts, checked under SpecOffline               *)
(* ====================================================================== *)
\* C18 as stated: any two delivered Offline alerts are at least
\* OfflineAlertRepeatInterval apart
C18_OfflineAlertsSpacedByInterval ==
    [][(/\ OfflineCall /\ call'.delivered
        /\ lastAlertTimes[OfflineAlertType] # ZeroTime)
       => now - lastAlertTimes[OfflineAlertType]
              >= getOfflineAlertRepeatInterval]_vars

\* C18 amended: the repeat interval spaces the alerts per node that stays
\* offline: every entry carries the zero time or the time of the last
\* delivered Offline alert, and an Offline alert goes to the transport more
\* than OfflineAlertRepeatInterval after the last delivered one unless a
\* configured node of failedConnections over the threshold has not been
\* alerted since it went offline
C18_OfflineAlertsSpacedPerNode ==
    [][/\ \A n \in DOMAIN offlineNodeStats' :
              offlineNodeStats'[n].lastOfflineAlertTime
                  \in {ZeroTime, lastAlertTimes'[OfflineAlertType]}
       /\ (/\ OfflineCall /\ call'.transmitted
           /\ lastAlertTimes[OfflineAlertType] # ZeroTime)
          => \/ now - lastAlertTimes[OfflineAlertType]
                    > getOfflineAlertRepeatInterval
             \/ \E n \in ConfiguredNodes \cap call'.args.failed :
                    /\ lastOfflineAlertTimeBefore(n) = ZeroTime
                    /\ OverThresholdAfter(n)]_vars

\* C18 witness: within the repeat interval after a delivered Offline alert
\* that stamped one node, a second alert goes to the transport because
\* another node, never alerted, is over the threshold
C18_Witness ==
    /\ call.op = "offline" /\ call.transmitted /\ ~call.delivered
    /\ lastAlertTimes[OfflineAlertType] # ZeroTime
    /\ now - lastAlertTimes[OfflineAlertType] <= getOfflineAlertRepeatInterval
    /\ \E n, m \in ConfiguredNodes \cap call.args.failed :
           /\ offlineNodeStats[n].lastOfflineAlertTime = ZeroTime
           /\ offlineNodeStats[n].consecutiveOfflineCount
                  > config.OfflineConsecutiveBlocksThreshold
           /\ offlineNodeStats[m].lastOfflineAlertTime
                  = lastAlertTimes[OfflineAlertType]

(* ====================================================================== *)
(* The notifier's enabled flag, checked under Spec                        *)
(* ====================================================================== *)
\* C19: with the notifier disabled no entry point hands a message to the
\* transport, lastAlertTimes and every lastOfflineAlertTime stay the zero
\* time, and canAlert is false for every last-alert time and every alarm
\* interval
C19_DisabledNotifierSilent ==
    ~notifier.enabled =>
        /\ ~call.transmitted /\ ~call.delivered
        /\ \A k \in AlertTypes : lastAlertTimes[k] = ZeroTime
        /\ \A n \in DOMAIN offlineNodeStats :
               offlineNodeStats[n].lastOfflineAlertTime = ZeroTime
        /\ \A t \in {ZeroTime} \cup 0..now, i \in 0..MaxInterval :
               ~canAlert(t, i)

\* C19 witness: with the notifier disabled, a handleHashAlert call hands its
\* alert to the sender at a time when a node has stayed over the offline
\* threshold for two calls and the chain has been recorded stuck
C19_Witness ==
    /\ ~notifier.enabled
    /\ call.op = "hash" /\ call.attempted
    /\ lastStuckTime # ZeroTime
    /\ \E n \in DOMAIN offlineNodeStats :
           offlineNodeStats[n].consecutiveOfflineCount
               >= config.OfflineConsecutiveBlocksThreshold + 2

(* ====================================================================== *)
(* The message of the hash alert, checked under SpecMessage               *)
(* ====================================================================== *)
\* C20 as stated: for a fixed height and hash map, createMessage gives the
\* same text whatever the order in which its two loops visit the input map
\* and the hash-to-endpoints grouping
C20_HashMessageDeterministic ==
    call.op = "createMessage" =>
        \A hashesOrder \in iterationOrders(DOMAIN call.alert.Hashes),
           groupOrder \in iterationOrders({call.alert.Hashes[e] :
                                               e \in DOMAIN call.alert.Hashes}) :
            createMessage(call.alert, hashesOrder, groupOrder) = call.message

(* ====================================================================== *)
(* The messages of the offline and sync alerts, checked under SpecMessage *)
(* ====================================================================== *)
\* the rows are in ascending order of their first column
rowsAscending(rows) ==
    \A i \in 1..(Len(rows) - 1) : ~stringBefore(rows[i + 1][1], rows[i][1])

\* C21 as stated: the offline message and the sync message carry a count
\* equal to the number of entries and list the nodes in ascending order of
\* the display label, and their text is the same for every order in which the
\* loops visit the input maps, also when two nodes have the same label and
\* different heights
C21_NodeMessagesDeterministic ==
    /\ call.op = "createOfflineMessage" =>
           /\ call.message[2] = Cardinality(DOMAIN call.NotConnected)
           /\ Len(call.message) = 2 + Cardinality(DOMAIN call.NotConnected)
           /\ rowsAscending(SubSeq(call.message, 3, Len(call.message)))
           /\ \A order \in iterationOrders(DOMAIN call.NotConnected) :
                  createOfflineMessage(call.NotConnected, order) = call.message
    /\ call.op = "createSyncMessage" =>
           /\ call.message[4] = Cardinality(call.Reached)
           /\ call.message[6 + Cardinality(call.Reached)]
                  = Cardinality(DOMAIN call.NotReached)
           /\ rowsAscending(SubSeq(call.message, 5, 4 + Cardinality(call.Reached)))
           /\ rowsAscending(SubSeq(call.message, 7 + Cardinality(call.Reached),
                                   Len(call.message)))
           /\ \A reachedOrder \in iterationOrders(call.Reached),
                 notReachedOrder \in iterationOrders(DOMAIN call.NotReached) :
                  createSyncMessage(call.Height, call.NotReached, call.Reached,
                                    reachedOrder, notReachedOrder)
                      = call.message

(* ====================================================================== *)
(* Abbreviation and display label, checked under SpecMessage              *)
(* ====================================================================== *)
\* C22 as stated: abbreviateIfDNSName keeps a literal IP host as it is and
\* shortens a DNS name to its first label, and a port present in the input
\* is present in the output
C22_AbbreviationKeepsPort ==
    call.op = "abbreviateIfDNSName" =>
        call.result =
            (IF ParseIP(call.host) THEN call.host ELSE Split(call.host)[1])
                \o (IF call.hasPort THEN <<":">> \o call.port ELSE <<>>)

\* the letter in lower case
toLower(c) == IF c = "A" THEN "a" ELSE c

\* the string with its surrounding whitespace removed, in lower case
folded(s) == LET t == TrimSpace(s) IN [i \in 1..Len(t) |-> toLower(t[i])]

\* C23 as stated: a node with a friendly name is rendered as
\* friendlyName(abbreviatedEndpoint) exactly when the friendly name differs
\* from the abbreviated endpoint under a comparison that ignores letter case
\* and surrounding whitespace, and as the abbreviated endpoint alone otherwise
C23_LabelComparisonIgnoresCase ==
    (call.op = "nodeStr" /\ call.node.FriendlyName # <<>>) =>
        LET host == abbreviateIfDNSName(call.node.Endpoint) IN
        call.result =
            IF folded(call.node.FriendlyName) # folded(host)
            THEN call.node.FriendlyName \o <<"(">> \o host \o <<")">>
            ELSE host

(* ====================================================================== *)
(* The loop of Start, checked under SpecMain                              *)
(* ====================================================================== *)
handlers == {"handleOfflineAlert", "handleSyncAlert", "handleHashAlert"}

\* the handle* calls of the cycle so far, in the order they were made
handled == LET made == SelectSeq(fc.cycle, LAMBDA e : e.call \in handlers)
           IN  [i \in 1..Len(made) |-> made[i].call]

\* the statement named ran in this cycle and returned err
ran(name, err) == \E i \in 1..Len(fc.cycle) :
                      fc.cycle[i] = [call |-> name, err |-> err]

\* a handler is running: the loop has called it and it has not returned
InHandler == fc.pc \in handlers /\ call # Idle

\* C24: in every execution of Start the handle* calls do not overlap (a
\* handler is entered only when none is running, and the loop moves only when
\* none is running); within a cycle they are made in the order
\* handleOfflineAlert, handleSyncAlert, handleHashAlert, each at most once;
\* and each gets the maps that ConnectToNodes, WaitHeight and CompareHashes
\* returned in this cycle
C24_HandlersSequentialInOrder ==
    /\ [](/\ handled \in {<<>>, <<"handleOfflineAlert">>,
                          <<"handleOfflineAlert", "handleSyncAlert">>,
                          <<"handleOfflineAlert", "handleSyncAlert",
                            "handleHashAlert">>}
          /\ (InHandler /\ call.op = "offline") =>
                 /\ fc.pc = "handleOfflineAlert"
                 /\ ran("ConnectToNodes", "nil")
                 /\ call.args.failed = fc.failedConnectionsNodes
          /\ (InHandler /\ call.op = "sync") =>
                 /\ fc.pc = "handleSyncAlert"
                 /\ ran("WaitHeight", "nil")
                 /\ call.args.checkpoint = fc.checkpoint
                 /\ call.args.notReached = fc.notReached
                 /\ call.args.reached = fc.reached
          /\ (InHandler /\ call.op = "hash") =>
                 /\ fc.pc = "handleHashAlert"
                 /\ call.args.checkpoint = fc.checkpoint
                 /\ call.args.hashes = fc.hashes)
    /\ [][/\ (call' # call /\ call' # Idle) => call = Idle
          /\ (call # Idle /\ fc'.pc # fc.pc) => call' = Idle]_vars

\* a cycle in which the three handlers ran, the hash alert being delivered
C24_Witness ==
    /\ handled = <<"handleOfflineAlert", "handleSyncAlert", "handleHashAlert">>
    /\ InHandler /\ call.op = "hash" /\ call.delivered

\* C25 as stated: while a send is in progress, the message with the
\* transport and the handler not back in the loop, the loop can begin the
\* observation gathering of the next cycle with ConnectToNodes
C25_SendDoesNotStallMonitoring ==
    (InHandler /\ call.transmitted) =>
        ENABLED (\E failed \in CoreFailed, err \in {"nil", "error"} :
                     StartConnectToNodes(failed, err))

\* C26: the loop calls handleHashAlert only in a cycle where ConnectToNodes
\* and WaitHeight succeeded, reached is not empty and CompareHashes returned
\* ErrHashesAreNotTheSame
C26_HashAlertOnlyOnDifferentHashes ==
    (\/ fc.pc = "handleHashAlert"
     \/ \E i \in 1..Len(fc.cycle) : fc.cycle[i].call = "handleHashAlert") =>
        /\ ran("ConnectToNodes", "nil")
        /\ ran("WaitHeight", "nil")
        /\ DOMAIN fc.reached # {}
        /\ ran("CompareHashes", "ErrHashesAreNotTheSame")
        /\ fc.err = "ErrHashesAreNotTheSame"

\* handleHashAlert was called
C26_Witness ==
    /\ \E i \in 1..Len(fc.cycle) : fc.cycle[i].call = "handleHashAlert"
    /\ ran("CompareHashes", "ErrHashesAreNotTheSame")
    /\ call.op = "hash" /\ call.transmitted

(* ====================================================================== *)
(* LoadConfig and NewForkChecker, checked under SpecMain                  *)
(* ====================================================================== *)
\* C27: on a configuration read from the file, Validate returns
\* ErrEmptyNodes when there are no nodes, else ErrEmptyApiUrl when there are
\* no API URLs, else ErrEmptyBotKey when the bot key is empty, else
\* ErrEmptyChatId when the chat is 0, else nil; LoadConfig returns the error
\* and no configuration when Validate fails, and the configuration otherwise
C27_ValidateOrder ==
    LET c == fc.content
        expected == IF c.Nodes = 0 THEN "ErrEmptyNodes"
                    ELSE IF c.ApiUrls = <<>> THEN "ErrEmptyApiUrl"
                    ELSE IF c.BotAPIKey = "" THEN "ErrEmptyBotKey"
                    ELSE IF c.ChatID = 0 THEN "ErrEmptyChatId"
                    ELSE "nil"
    IN  (fc.pc # "LoadConfig" /\ c # NoConfig) =>
            IF expected = "nil"
            THEN fc.cfg = c /\ (fc.pc = "NewForkChecker" => fc.err = "nil")
            ELSE fc.cfg = NoConfig /\ fc.pc = "exit" /\ fc.err = expected

\* LoadConfig turned down a configuration that has all but the chat
C27_Witness ==
    /\ fc.pc = "exit" /\ fc.cfg = NoConfig
    /\ fc.content.Nodes # 0 /\ fc.content.ApiUrls # <<>>
    /\ fc.content.BotAPIKey # "" /\ fc.content.ChatID = 0
    /\ fc.err = "ErrEmptyChatId"

\* NewForkChecker has returned to main
Constructed == fc.pc = "Start" \/ (fc.pc = "exit" /\ fc.cfg # NoConfig)

\* the indices of the configured URLs that answer
answering == {i \in 1..Len(fc.cfg.ApiUrls) : fc.cfg.ApiUrls[i] \in fc.init.up}

\* C28: with a client, an alert manager and a pool made, initCheckpoint sets
\* the checkpoint to cfg.Checkpoint when that is not 0, without asking the
\* chain; otherwise it asks the chain and sets the checkpoint to its height;
\* when the chain answers with an error NewForkChecker returns the error and
\* no ForkChecker
C28_InitCheckpoint ==
    (/\ Constructed
     /\ answering # {} /\ fc.init.amErr = "nil" /\ fc.init.poolErr = "nil") =>
        IF fc.cfg.Checkpoint # 0
        THEN /\ fc.pc = "Start"
             /\ fc.checkpoint = fc.cfg.Checkpoint
             /\ ~fc.init.queried
        ELSE IF fc.init.chain.err = "nil"
        THEN /\ fc.pc = "Start"
             /\ fc.checkpoint = fc.init.chain.height
             /\ fc.init.queried
        ELSE /\ fc.pc = "exit" /\ fc.err # "nil"
             /\ fc.catapultClient = "nil"
             /\ fc.init.queried

\* the configuration has no checkpoint and the chain answers with an error
C28_Witness ==
    /\ Constructed
    /\ answering # {} /\ fc.init.amErr = "nil" /\ fc.init.poolErr = "nil"
    /\ fc.cfg.Checkpoint = 0 /\ fc.init.chain.err # "nil"
    /\ fc.pc = "exit"

\* C29: initCatapultClient tries the URLs in the order of the configuration,
\* takes the first that answers and tries none after it; it fails, and
\* NewForkChecker with it, exactly when no URL answers
C29_FirstAnsweringUrl ==
    Constructed =>
        IF answering = {}
        THEN /\ fc.pc = "exit" /\ fc.err # "nil"
             /\ fc.init.tried = Len(fc.cfg.ApiUrls)
        ELSE LET first == CHOOSE i \in answering :
                              \A j \in answering : i <= j
             IN  /\ fc.init.tried = first
                 /\ fc.pc = "Start" =>
                        fc.catapultClient = fc.cfg.ApiUrls[first]
                 /\ (/\ fc.init.amErr = "nil" /\ fc.init.poolErr = "nil"
                     /\ (fc.cfg.Checkpoint # 0 \/ fc.init.chain.err = "nil"))
                        => fc.pc = "Start"

\* both URLs answer: the client is on the first and the second was not tried
C29_Witness ==
    /\ fc.pc = "Start"
    /\ fc.cfg.ApiUrls = <<"u1", "u2">> /\ fc.init.up = {"u1", "u2"}
    /\ fc.catapultClient = "u1" /\ fc.init.tried = 1

(* ====================================================================== *)
(* The earlier Notifier, checked under SpecLegacy                         *)
(* ====================================================================== *)
\* C30 as stated: canAlert(last) is true exactly when the notifier is
\* enabled and last is the zero time or now - last >= alarmInterval; a test
\* that stamps last at each permitted alert and polls more often than
\* alarmInterval over a window of length D counts exactly D / alarmInterval
\* alerts; and with the notifier enabled canAlert(now) is true
C30_LegacyRateLimit ==
    /\ call.op = "canAlert" =>
           /\ call.result <=>
                  /\ notifier.enabled
                  /\ \/ call.lastAlertTime = ZeroTime
                     \/ now - call.lastAlertTime >= call.alarmInterval
           /\ (notifier.enabled /\ call.lastAlertTime = now) => call.result
    /\ (/\ call.op = "poll"
        /\ notifier.enabled
        /\ call.sleep < call.alarmInterval
        /\ now - call.startTime >= call.testDuration) =>
           call.actualAlertCount = call.testDuration \div call.alarmInterval

(* ====================================================================== *)
(* The checkpoint in the loop of Start, checked under SpecMain            *)
(* ====================================================================== *)
\* the statements of the loop
LoopPcs == {"ConnectToNodes", "handleOfflineAlert", "WaitHeight",
            "handleSyncAlert", "CompareHashes", "handleHashAlert",
            "updateCheckpoint"}

\* in this cycle WaitHeight returned without error and with no node in reached
StuckCycle == ran("WaitHeight", "nil") /\ DOMAIN fc.reached = {}

\* CompareHashes ran in this cycle
Compared == \E i \in 1..Len(fc.cycle) : fc.cycle[i].call = "CompareHashes"

\* C31: in a cycle where WaitHeight returns an empty reached map no hash
\* comparison is made and no step of the cycle, nor the step that begins the
\* next one, changes the checkpoint
C31_NoAdvanceWhileStuck ==
    /\ [](StuckCycle =>
              /\ ~Compared
              /\ fc.pc \in {"handleSyncAlert", "ConnectToNodes"})
    /\ [][StuckCycle => fc'.checkpoint = fc.checkpoint]_vars

\* a stuck cycle has ended: both handlers ran and the loop is back at
\* ConnectToNodes with the checkpoint it had
C31_Witness ==
    /\ StuckCycle
    /\ handled = <<"handleOfflineAlert", "handleSyncAlert">>
    /\ DOMAIN fc.notReached # {}
    /\ fc.pc = "ConnectToNodes" /\ call = Idle

\* the cycle passed ConnectToNodes and WaitHeight, some node reached the
\* checkpoint and CompareHashes returned no error or different hashes
Passed ==
    /\ ran("ConnectToNodes", "nil")
    /\ ran("WaitHeight", "nil")
    /\ DOMAIN fc.reached # {}
    /\ \/ ran("CompareHashes", "nil")
       \/ ran("CompareHashes", "ErrHashesAreNotTheSame")

\* C32: in the loop the checkpoint never decreases and changes only in the
\* step that ends a cycle; the cycle ends with the checkpoint greater by
\* HeightCheckInterval when it passed, and with the same checkpoint on a
\* connect error, a wait error, a stuck chain, ErrNoConnectedPeers or another
\* error of CompareHashes
C32_CheckpointProgression ==
    [][fc.pc \in LoopPcs =>
           /\ fc'.checkpoint >= fc.checkpoint
           /\ fc'.pc # "ConnectToNodes" => fc'.checkpoint = fc.checkpoint
           /\ fc'.pc = "ConnectToNodes" =>
                  fc'.checkpoint = IF Passed'
                                   THEN fc.checkpoint + fc.cfg.HeightCheckInterval
                                   ELSE fc.checkpoint]_vars

\* a cycle with a hash alert has ended and the checkpoint has moved on by
\* HeightCheckInterval
C32_Witness ==
    /\ fc.pc = "ConnectToNodes"
    /\ Passed /\ ran("handleHashAlert", "nil")
    /\ fc.cfg.HeightCheckInterval > 0
    /\ fc.checkpoint = fc.cfg.HeightCheckInterval

\* C33: in a cycle where ConnectToNodes fails no handler is called and no
\* state of the AlertManager changes; in a cycle where WaitHeight fails
\* handleOfflineAlert has run and no other handler has, and lastStuckHeight
\* and lastStuckTime change only in a handleSyncAlert that follows a
\* WaitHeight without error
C33_EarlyExitEffects ==
    /\ [](/\ ran("ConnectToNodes", "error") =>
                 /\ handled = <<>>
                 /\ fc.pc = "ConnectToNodes" /\ call = Idle
          /\ ran("WaitHeight", "error") =>
                 /\ handled = <<"handleOfflineAlert">>
                 /\ fc.pc = "ConnectToNodes" /\ call = Idle)
    /\ [][/\ (ran("ConnectToNodes", "error"))' => UNCHANGED amState
          /\ <<lastStuckHeight, lastStuckTime>>' # <<lastStuckHeight, lastStuckTime>>
                 => /\ fc.pc = "handleSyncAlert"
                    /\ ran("WaitHeight", "nil")]_vars

\* WaitHeight failed after handleOfflineAlert counted an offline node
C33_Witness ==
    /\ ran("WaitHeight", "error")
    /\ handled = <<"handleOfflineAlert">>
    /\ DOMAIN offlineNodeStats # {}
    /\ fc.pc = "ConnectToNodes"

(* ====================================================================== *)
(* A file without heightCheckInterval, checked under SpecIdle             *)
(* ====================================================================== *)
\* C40 as stated: for every configuration that Validate accepts, the cycle
\* that follows a cycle with a hash alert has a strictly larger checkpoint,
\* so that handleHashAlert is called at most once for a checkpoint
C40_OneHashAlertPerCheckpoint ==
    [][(/\ fc.pc = "updateCheckpoint"
        /\ ran("handleHashAlert", "nil")
        /\ fc'.pc = "ConnectToNodes")
           => fc'.checkpoint > fc.checkpoint]_vars

(* ====================================================================== *)
(* Stuck tracking and the repeat interval, checked under SpecStall        *)
(* ====================================================================== *)
\* C34: a handleSyncAlert call with empty reached, non-empty notReached and
\* a checkpoint other than lastStuckHeight records the checkpoint and now
\* as lastStuckHeight and lastStuckTime, whatever the time since the last
\* Sync alert
C34_StuckTrackingBeforeGate ==
    [][(StuckCall /\ call'.args.checkpoint # lastStuckHeight) =>
           /\ lastStuckHeight' = call'.args.checkpoint
           /\ lastStuckTime' = now]_vars

\* a stuck checkpoint was recorded in a call made less than
\* SyncAlertRepeatInterval after a Sync alert
C34_Witness ==
    /\ call.op = "sync"
    /\ DOMAIN call.args.reached = {} /\ DOMAIN call.args.notReached # {}
    /\ lastStuckHeight = call.args.checkpoint /\ lastStuckTime = now
    /\ lastAlertTimes[SyncAlertType] # ZeroTime
    /\ now - lastAlertTimes[SyncAlertType] < getSyncAlertRepeatInterval

(* ====================================================================== *)
(* Stuck alerts and progress, checked under SpecProgress                  *)
(* ====================================================================== *)
\* C35 as stated: when a handleSyncAlert call finds the stuck condition true
\* for the checkpoint recorded at lastStuckTime, no handleSyncAlert call for
\* that checkpoint since the record was made had a node in reached
C35_StuckAlertMeansStuckThroughout ==
    (/\ call.op = "sync"
     /\ DOMAIN call.args.reached = {} /\ DOMAIN call.args.notReached # {}
     /\ call.should
     /\ lastStuckTime # ZeroTime) => ~fc.progress

(* ====================================================================== *)
(* Threshold crossings, checked under SpecOffline                         *)
(* ====================================================================== *)
\* the call's increment takes the count of node n from at most the threshold
\* to above it: n is failed, and had no entry or a count not over the
\* threshold before the call
CrossesThreshold(n) ==
    /\ n \in call'.args.failed
    /\ \/ n \notin DOMAIN offlineNodeStats
       \/ offlineNodeStats[n].consecutiveOfflineCount
              <= config.OfflineConsecutiveBlocksThreshold
    /\ OverThresholdAfter(n)

C37_OfflineNodeStatsWellFormed ==
    /\ [](\A n \in DOMAIN offlineNodeStats :
              /\ n \in ConfiguredNodes
              /\ offlineNodeStats[n].consecutiveOfflineCount >= 1)
    /\ [][OfflineCall =>
              call'.should =
                  shouldSendOfflineAlert(call'.args.failed
                                             \cap ConfiguredNodes).shouldAlert]_vars

\* a call whose only failed node is not configured, under a threshold of 0
\* that a configured node would exceed at once: no entry, no alert
C37_Witness ==
    /\ call.op = "offline"
    /\ call.args.failed # {} /\ call.args.failed \cap ConfiguredNodes = {}
    /\ config.OfflineConsecutiveBlocksThreshold = 0
    /\ now > 0
    /\ offlineNodeStats = <<>>
    /\ ~call.should /\ ~call.attempted

(* ====================================================================== *)
(* A chain that stops for good, checked under SpecStall                   *)
(* ====================================================================== *)
\* a Sync alert delivered by a call made after the chain stopped
StuckAlertSent == fc.stalled /\ call.op = "sync" /\ call.delivered

\* C38: with the notifier enabled, once the chain has stopped a stuck alert is
\* sent, after each stuck alert another one is sent later than
\* SyncAlertRepeatInterval after it, and no Sync alert is sent sooner after
\* the one before. The clock of the model ends at MaxTime: the time that
\* keeps advancing is a horizon more than the threshold and the interval
\* ahead
C38_StuckLiveness ==
    /\ (/\ fc.stalled /\ call = Idle /\ notifier.enabled
        /\ now + getStuckDurationThreshold < MaxTime
        /\ now + getSyncAlertRepeatInterval < MaxTime) ~> StuckAlertSent
    /\ \A s \in Times :
           (/\ StuckAlertSent /\ notifier.enabled /\ now = s
            /\ s + getSyncAlertRepeatInterval < MaxTime)
               ~> (StuckAlertSent /\ now > s + getSyncAlertRepeatInterval)
    /\ [][(SyncCall /\ call'.delivered) =>
              Since(lastAlertTimes[SyncAlertType])
                  > getSyncAlertRepeatInterval]_vars

\* a stuck alert sent for checkpoint 1 once a threshold above 0 has run out
C38_Witness ==
    /\ StuckAlertSent
    /\ call.args.checkpoint = 1 /\ lastStuckHeight = 1
    /\ getStuckDurationThreshold > 0
    /\ now - lastStuckTime > getStuckDurationThreshold

(* ====================================================================== *)
(* Nodes that go down for good, checked under SpecOutage                  *)
(* ====================================================================== *)
\* the consecutive offline count of node n, 0 when it has no entry
countOf(n) ==
    IF n \in DOMAIN offlineNodeStats
    THEN offlineNodeStats[n].consecutiveOfflineCount
    ELSE 0

\* an Offline alert that lists node n, delivered while n is down for good
OfflineAlertSent(n) ==
    /\ n \in fc.down
    /\ call.op = "offline" /\ call.delivered
    /\ n \in call.alert.NotConnected

\* C39: for a configured node that is down for good, the count grows with
\* every cycle, and with the notifier enabled an Offline alert that lists the
\* node is sent once the count has come to the threshold. The clock of the
\* model ends at MaxTime: the time that keeps advancing is a horizon more
\* than the repeat interval ahead
C39_OfflineLiveness ==
    \A n \in ConfiguredNodes :
        /\ \A k \in 0..MaxTime :
               (n \in fc.down /\ call = Idle /\ countOf(n) = k)
                   ~> (countOf(n) > k)
        /\ (/\ n \in fc.down /\ call = Idle /\ notifier.enabled
            /\ countOf(n) >= config.OfflineConsecutiveBlocksThreshold
            /\ now + getOfflineAlertRepeatInterval < MaxTime)
               ~> OfflineAlertSent(n)

\* an alert that lists a node down for good, sent once its count has passed a
\* threshold above 0 and an earlier alert has aged past the interval
C39_Witness ==
    \E n \in ConfiguredNodes :
        /\ OfflineAlertSent(n)
        /\ config.OfflineConsecutiveBlocksThreshold > 0
        /\ countOf(n) > config.OfflineConsecutiveBlocksThreshold + 1
        /\ offlineNodeStats[n].lastOfflineAlertTime = now

====
